---------------------------- MODULE Spec2Model ----------------------------
(***************************************************************************)
(* Model of mne_lsl.stream.EpochsStream (src/mne_lsl/stream/epochs.py):    *)
(* the real-time epoch extraction engine.  One EpochsStream is attached to *)
(* one regularly sampled source Stream carrying one data channel and one   *)
(* stim channel; events are detected on the stim channel.                  *)
(*                                                                         *)
(* Conventions.                                                            *)
(*  - Python None is the empty sequence <<>>, a set attribute x is <<x>>.   *)
(*  - Python arrays are TLA+ sequences; Python index i is TLA+ index i+1.  *)
(*  - Times (tmin, tmax) are rationals with denominator TimeDen, so that   *)
(*    ceil() and round() are computed, not assumed.                        *)
(***************************************************************************)
EXTENDS Integers, Sequences, FiniteSets, TLC

\* ------------------------------------------------------------------ bounds
\* Number of samples the source stream delivers in one run of the model.
MaxSamples == 4
\* Number of connect() calls that succeed in one run of the model.
MaxConnects == 2

\* ------------------------------------------------------- Python primitives
None == <<>>
Some(v) == <<v>>
Get(o) == o[1]

Max(a, b) == IF a >= b THEN a ELSE b
Min(a, b) == IF a <= b THEN a ELSE b

\* math.ceil(num / den), den > 0
Ceil(num, den) == -((-num) \div den)

\* Python 3 round(num / den), den > 0: round half to even
Round(num, den) ==
    LET q == num \div den
        r == num - q * den
    IN  IF 2 * r < den THEN q
        ELSE IF 2 * r > den THEN q + 1
        ELSE IF q % 2 = 0 THEN q ELSE q + 1

\* a[start:stop] of a Python sequence: negative bounds count from the end,
\* out-of-range bounds are clipped, an empty range gives an empty result.
PySlice(a, start, stop) ==
    LET n  == Len(a)
        s0 == IF start < 0 THEN Max(start + n, 0) ELSE Min(start, n)
        e0 == IF stop < 0 THEN Max(stop + n, 0) ELSE Min(stop, n)
    IN  IF s0 < e0 THEN SubSeq(a, s0 + 1, e0) ELSE << >>

\* (mutant of Roll: the buffer is rolled towards the tail, np.roll(a, k))
RollTowardsTail(a, k) ==
    LET n == Len(a)
    IN  [i \in 1..n |-> a[((i - 1 - k) % n) + 1]]

\* np.roll(a, -k, axis=0): element i of the result is element (i + k) mod n
Roll(a, k) ==
    LET n == Len(a)
    IN  [i \in 1..n |-> a[((i - 1 + k) % n) + 1]]

\* ----------------------------------------------------- the source Stream
\* Channels of the source stream, in order (Python index 0 and 1).
ChNames == <<"eeg", "stim">>
StimValues == {0, 1, 2}

\* Timestamp and data value of the g-th sample delivered (g = 1, 2, ...).
TsOf(g) == 100 + g
EegOf(g) == 10 + g


\* The stream buffer always holds stream_bufsize samples: zeros with timestamp
\* 0 until that many samples were delivered.  `stims` is the sequence of stim
\* values delivered so far; get_data() returns (data, ts) with data indexed
\* by channel, then by time.
StreamTs(stims, W) ==
    [i \in 1..W |-> LET g == Len(stims) - W + i
                    IN  IF g >= 1 THEN TsOf(g) ELSE 0]
StreamData(stims, W) ==
    << [i \in 1..W |-> LET g == Len(stims) - W + i
                       IN  IF g >= 1 THEN EegOf(g) ELSE 0],
       [i \in 1..W |-> LET g == Len(stims) - W + i
                       IN  IF g >= 1 THEN stims[g] ELSE 0] >>

\* ------------------------------------------------------- event detection
\* mne.event._find_events(d, output="onset", consecutive="increasing",
\* min_samples=0, initial_event=False, first_samp=0) on one channel: one
\* event (index, previous value, new value) per step to a larger value.  The
\* stop padding with 0 closes every onset, so no onset is orphaned.
find_events(d) ==
    LET idxs   == [i \in 1..(Len(d) - 1) |-> i]
        Rising(i) == d[i + 1] > d[i]
        onsets == SelectSeq(idxs, Rising)
    IN  [k \in 1..Len(onsets) |->
            [idx |-> onsets[k], prev |-> d[onsets[k]], code |-> d[onsets[k] + 1]]]

\* Concatenation of the events of the channels `chs` (Python channel indices)
RECURSIVE ConcatEvents(_, _)
ConcatEvents(data, chs) ==
    IF chs = << >> THEN << >>
    ELSE find_events(data[Head(chs) + 1]) \o ConcatEvents(data, Tail(chs))

\* mne.event._find_unique_events: duplicated rows are removed
RECURSIVE find_unique_events(_)
find_unique_events(events) ==
    IF events = << >> THEN << >>
    ELSE LET rest == find_unique_events(Tail(events))
         IN  IF \E k \in 1..Len(rest) : rest[k] = Head(events)
             THEN rest ELSE <<Head(events)>> \o rest

\* events[np.argsort(events[:, 0])]
RECURSIVE SortByIdx(_)
SortByIdx(events) ==
    IF events = << >> THEN << >>
    ELSE LET m == CHOOSE k \in 1..Len(events) :
                    \A j \in 1..Len(events) :
                        \/ events[k].idx < events[j].idx
                        \/ events[k].idx = events[j].idx /\ k <= j
             rest == [j \in 1..(Len(events) - 1) |->
                        IF j < m THEN events[j] ELSE events[j + 1]]
         IN  <<events[m]>> \o SortByIdx(rest)

find_events_in_stim_channels(data, event_channels) ==
    SortByIdx(find_unique_events(ConcatEvents(data, event_channels)))

\* --------------------------------------------------------- event pruning
\* (mutant of SearchSortedLeft: side="right", the elements equal to v count)
SearchSortedRight(ts, v) == Cardinality({i \in 1..Len(ts) : ts[i] <= v})

\* np.searchsorted(ts, v, side="left"): number of elements of ts below v
SearchSortedLeft(ts, v) == Cardinality({i \in 1..Len(ts) : ts[i] < v})

\* The four steps of _prune_events.  event_id is None or Some(set of codes),
\* last_ts is None or Some(timestamp), ts_events is None or Some(timestamps of
\* the event stream).
\* (mutant of PruneAllowed: the allow-list is not applied)
PruneAllowedAll(events, event_id) == events

\* events[np.isin(events[:, 2], list(event_id.values()))]
PruneAllowed(events, event_id) ==
    LET InId(e) == event_id = None \/ e.code \in Get(event_id)
    IN  SelectSeq(events, InId)
\* events[:, 0] = np.searchsorted(ts, ts_events[events[:, 0]], side="left")
PruneAnchored(events, ts, ts_events) ==
    IF ts_events = None THEN events
    ELSE [k \in 1..Len(events) |->
            [events[k] EXCEPT !.idx =
                SearchSortedLeft(ts, Get(ts_events)[events[k].idx + 1])]]
\* (mutant of PruneFitting: an epoch that ends with the data does not fit)
PruneFittingStrict(events, buffer_size, ts) ==
    LET Fits(e) == e.idx + buffer_size < Len(ts)
    IN  SelectSeq(events, Fits)

\* events[np.where(events[:, 0] + buffer_size <= ts.size)[0]]
PruneFitting(events, buffer_size, ts) ==
    LET Fits(e) == e.idx + buffer_size <= Len(ts)
    IN  SelectSeq(events, Fits)
\* events[np.where(ts[events[:, 0]] > last_ts)[0]]
PruneUnseen(events, ts, last_ts) ==
    LET IsNew(e) == ts[e.idx + 1] > Get(last_ts)
    IN  IF last_ts = None THEN events ELSE SelectSeq(events, IsNew)

prune_events(events, event_id, buffer_size, ts, last_ts, ts_events) ==
    PruneUnseen(
        PruneFitting(
            PruneAnchored(PruneAllowed(events, event_id), ts, ts_events),
            buffer_size, ts),
        ts, last_ts)


\* ------------------------------------------------------------ extraction
\* data[picks, start : start + n].T assigned to data_selection[k], an array
\* of shape (n, picks.size).  numpy accepts the assignment when the slice has
\* n rows, or one row (broadcast to the n rows); any other length raises
\* ValueError.
SliceLen(ts, start, n) == Len(PySlice(ts, start, start + n))
ExtractOk(ts, start, n) == SliceLen(ts, start, n) \in {n, 1}
ExtractEpoch(data, picks, start, n) ==
    [j \in 1..n |->
        [p \in 1..Len(picks) |->
            LET sl == PySlice(data[picks[p] + 1], start, start + n)
            IN  IF Len(sl) = 1 THEN sl[1] ELSE sl[j]]]

\* ------------------------------------------------------------ configuration
\* EpochsStream.__init__ arguments and the source stream's settings, frozen at
\* construction.  tmin and tmax are tmin/time_den and tmax/time_den seconds;
\* stream_bufsize is the length of the source buffer in samples; picks_init
\* is the `picks` argument, None or Some(channel names), which __init__ stores
\* without checking it; stim_values are the values the stim channel of the
\* source takes.  All satisfy the constructor's checks: tmax > tmin,
\* bufsize > 0, stream buffer >= epoch duration.
Configs ==
    { [tmin |-> -2, tmax |-> 1, time_den |-> 4, sfreq |-> 2, bufsize |-> 3,
       event_id |-> {1, 2}, event_channels |-> <<1>>, stream_bufsize |-> 5,
       picks_init |-> None, stim_values |-> {0, 1, 2}],
      [tmin |-> -1, tmax |-> 2, time_den |-> 4, sfreq |-> 2, bufsize |-> 2,
       event_id |-> {2}, event_channels |-> <<1>>, stream_bufsize |-> 4,
       picks_init |-> None, stim_values |-> {0, 1, 2}],
      [tmin |-> -4, tmax |-> -1, time_den |-> 4, sfreq |-> 2, bufsize |-> 1,
       event_id |-> {1, 2}, event_channels |-> <<1>>, stream_bufsize |-> 4,
       picks_init |-> None, stim_values |-> {0, 1}],
      [tmin |-> -1, tmax |-> 2, time_den |-> 4, sfreq |-> 2, bufsize |-> 2,
       event_id |-> {2}, event_channels |-> <<1>>, stream_bufsize |-> 4,
       picks_init |-> Some(<<"ecg">>), stim_values |-> {0, 2}] }

\* _picks_to_idx(self._stream._info, self._picks_init, "all", "bads",
\* allow_empty=False) in connect(): the indices of the named channels, all
\* channels for None; None stands for the ValueError raised for a name that
\* is not a channel of the stream.
ChIdx(name) == CHOOSE c \in 0..(Len(ChNames) - 1) : ChNames[c + 1] = name
InitPicksToIdx(picks_init) ==
    IF picks_init = None THEN Some([c \in 1..Len(ChNames) |-> c - 1])
    ELSE IF \E k \in 1..Len(Get(picks_init)) :
               \A c \in 1..Len(ChNames) : ChNames[c] # Get(picks_init)[k]
    THEN None
    ELSE Some([k \in 1..Len(Get(picks_init)) |-> ChIdx(Get(picks_init)[k])])

\* values of the environment variable MNE_LSL_RAISE_STREAM_ERRORS, read by
\* _acquire when a step has failed: "true" (strict mode) or not
StrictModes == BOOLEAN

\* acquisition_delay values passed to connect()
Delays == {-1, 0, 1}
\* picks values passed to get_data(): None (all channels) or channel indices
PicksArgs == {None, Some(<<0>>)}

VARIABLES
    cfg,                \* the frozen configuration
    stims,              \* stim values delivered by the source stream so far
    n_new_samples,      \* stream._n_new_samples
    acquisition_delay,  \* self._acquisition_delay
    buffer,             \* self._buffer, shape (bufsize, n_samples, n_picks)
    executor,           \* self._executor: None or Some(index into pools)
    info,               \* self._info
    last_ts,            \* self._last_ts
    n_new_epochs,       \* self._n_new_epochs
    picks,              \* self._picks
    last,               \* self._last (attribute created by _acquire)
    new_new_epochs,     \* self._new_new_epochs (attribute created by get_data)
    pools,              \* every ThreadPoolExecutor created so far
    stream_epochs,      \* whether self is in self._stream._epochs
    caller,             \* position of the caller thread
    last_call,          \* outcome of the caller's last API call
    inserted,           \* history: epochs inserted during this connection
    n_connects,         \* history: number of successful connect() calls
    call,               \* a call of one of the module's functions: arguments and result
    player,             \* bsl StreamPlayer and its child process
    trigger,            \* neurodecode TriggerArduino2LPT and its off-timer
    receiver            \* neurodecode StreamReceiver

vars == <<cfg, stims, n_new_samples, acquisition_delay, buffer, executor, info,
          last_ts, n_new_epochs, picks, last, new_new_epochs, pools,
          stream_epochs, caller, last_call, inserted, n_connects, call,
          player, trigger, receiver>>

\* the programs of the repository other than EpochsStream
programs == <<player, trigger, receiver>>
NoPrograms == player = None /\ trigger = None /\ receiver = None

self_vars == <<acquisition_delay, buffer, executor, info, last_ts,
               n_new_epochs, picks>>


\* ------------------------------------------------------------ properties
\* EpochsStream.connected returns False when the four attributes are all
\* None; otherwise it asserts that none of them is None and returns True.
disconnected ==
    acquisition_delay = None /\ buffer = None /\ info = None /\ picks = None
connected ==
    acquisition_delay # None /\ buffer # None /\ info # None /\ picks # None
\* the states in which the sanity-check of `connected` raises AssertionError
connected_asserts == ~disconnected /\ ~connected

\* Outcome of reading a property: the value, or the exception raised.
Value(v) == [raised |-> "", value |-> Some(v)]
Raises(error) == [raised |-> error, value |-> None]

\* EpochsStream.n_new_epochs, after _check_connected
n_new_epochs_property ==
    IF disconnected THEN Raises("RuntimeError")
    ELSE IF connected_asserts THEN Raises("AssertionError")
    ELSE Value(n_new_epochs)

\* EpochsStream.info
info_property ==
    IF disconnected THEN Raises("RuntimeError")
    ELSE IF connected_asserts THEN Raises("AssertionError")
    ELSE Value(Get(info))

\* ------------------------------------------------------------- the pools
\* A ThreadPoolExecutor(max_workers=1): `shutdown` once shutdown() was called,
\* `pending` when a submitted _acquire has not started, `pc` the position of
\* its worker thread inside _acquire, `loc` the worker's local variables.
PoolIds == 1..MaxConnects
IdlePool ==
    [shutdown |-> FALSE, pending |-> FALSE, pc |-> "idle", loc |-> None]
Running(i) == pools[i].pc # "idle"

\* --------------------------------------------------- the acquisition step
\* What one run of the try block of _acquire computes from the attributes of
\* self and the source stream, up to data_selection (lines 379-460).
StepTs == StreamTs(stims, cfg.stream_bufsize)
StepData == StreamData(stims, cfg.stream_bufsize)
StepNSamples == Len(Get(buffer)[1])
StepEvents ==
    prune_events(
        find_events_in_stim_channels(StepData, cfg.event_channels),
        Some(cfg.event_id), StepNSamples, StepTs, last_ts, None)
StepShift == Round(cfg.tmin * Get(info).sfreq, cfg.time_den)
StepExtractOk ==
    \A k \in 1..Len(StepEvents) :
        ExtractOk(StepTs, StepEvents[k].idx + StepShift, StepNSamples)
StepSelection ==
    [k \in 1..Len(StepEvents) |->
        ExtractEpoch(StepData, Get(picks), StepEvents[k].idx + StepShift,
                     StepNSamples)]
\* timestamps of the onsets of the batch, and ts[events[-1, 0]]
StepOnsets == [k \in 1..Len(StepEvents) |-> StepTs[StepEvents[k].idx + 1]]
StepLastTs == StepTs[StepEvents[Len(StepEvents)].idx + 1]

\* (mutant of NoNewSamples: the early return without new samples is missing)
NoNewSamplesIgnored == FALSE

\* the two early returns of _acquire
NoNewSamples == n_new_samples = 0
NoNewEvents == Len(StepEvents) = 0

\* self._buffer[-k:, :, :] = data_selection: the target has min(k, bufsize)
\* slots, the assignment raises ValueError unless the batch has as many (or
\* one, which numpy broadcasts).
WriteOk(buf, sel) ==
    Len(PySlice(buf, -Len(sel), Len(buf))) = Len(sel) \/ Len(sel) = 1
WriteTail(buf, sel) ==
    LET n == Len(buf)
        m == Len(PySlice(buf, -Len(sel), n))
    IN  [i \in 1..n |->
            IF i <= n - m THEN buf[i]
            ELSE IF Len(sel) = 1 THEN sel[1] ELSE sel[i - (n - m)]]

\* history records of a batch: onset timestamp and epoch
LogOf(onsets, sel) ==
    [k \in 1..Len(sel) |-> [ts |-> onsets[k], epoch |-> sel[k]]]


\* ------------------------------------------------------------------ Init
\* The state after EpochsStream.__init__ (which ends in _reset_variables) on
\* a connected source stream that has not delivered a sample yet.
Init ==
    /\ cfg \in Configs
    /\ stims = << >>
    /\ n_new_samples = 0
    /\ acquisition_delay = None
    /\ buffer = None
    /\ executor = None
    /\ info = None
    /\ last_ts = None
    /\ n_new_epochs = 0
    /\ picks = None
    /\ last = None
    /\ new_new_epochs = None
    /\ pools = << >>
    /\ stream_epochs = TRUE
    /\ caller = [pc |-> "ready", pool |-> 0]
    /\ last_call = [op |-> "init", arg |-> None, raised |-> "", ret |-> None,
                    step |-> ""]
    /\ inserted = << >>
    /\ n_connects = 0
    /\ call = None
    /\ NoPrograms

\* outcome of an API call: its name, argument, exception and return value, and
\* for an acquire() that ran _acquire, how that step ended
Returned(op, arg, ret) ==
    [op |-> op, arg |-> arg, raised |-> "", ret |-> ret, step |-> ""]
Raised(op, arg, error) ==
    [op |-> op, arg |-> arg, raised |-> error, ret |-> None, step |-> ""]
Stepped(how) ==
    [op |-> "acquire", arg |-> None, raised |-> "", ret |-> None, step |-> how]
\* a step of acquire() that failed: the error is re-raised in strict mode only
Failed(error, strict) ==
    [op |-> "acquire", arg |-> None, raised |-> IF strict THEN error ELSE "",
     ret |-> None, step |-> "failed"]

\* _reset_variables, run by the caller's thread
reset_variables ==
    /\ acquisition_delay' = None
    /\ buffer' = None
    /\ executor' = None
    /\ info' = None
    /\ last_ts' = None
    /\ n_new_epochs' = 0
    /\ picks' = None

\* the k-th assignment of _reset_variables, k = 1..7
ResetStatement(k) ==
    /\ acquisition_delay' = IF k = 1 THEN None ELSE acquisition_delay
    /\ buffer' = IF k = 2 THEN None ELSE buffer
    /\ executor' = IF k = 3 THEN None ELSE executor
    /\ info' = IF k = 4 THEN None ELSE info
    /\ last_ts' = IF k = 5 THEN None ELSE last_ts
    /\ n_new_epochs' = IF k = 6 THEN 0 ELSE n_new_epochs
    /\ picks' = IF k = 7 THEN None ELSE picks

\* position of a worker that is about to run the k-th assignment of
\* _reset_variables in the except clause of _acquire
ResetPcs ==
    <<"reset1", "reset2", "reset3", "reset4", "reset5", "reset6", "reset7">>

\* The worker of the connected executor has failed and is about to reset the
\* variables while the caller's thread is inside an API call: the call read
\* `connected` as True before the worker's first assignment.
FailingWorker ==
    /\ connected
    /\ executor # None
    /\ pools[Get(executor)].pc = "reset1"

\* the pools once that worker has run the first three assignments
\* (_acquisition_delay, _buffer, _executor)
PoolsAfterExecutorReset ==
    [pools EXCEPT ![Get(executor)].pc = "reset4"]

\* A worker left behind by a raced call: it still has `self._info = None`
\* (reset4) or `self._picks = None` (reset7) to run.
StaleWorkers == {i \in DOMAIN pools : pools[i].pc \in {"reset4", "reset7"}}

\* the pools once the stale worker i has run that assignment; after the last
\* one its job ends
PoolsAfterStaleWrite(i) ==
    IF pools[i].pc = "reset4"
    THEN [pools EXCEPT ![i].pc = "reset5"]
    ELSE [pools EXCEPT ![i].pc = "idle", ![i].loc = None]

\* --------------------------------------------------- the source stream
\* The source stream receives one sample with stim value v.
StreamPush(v) ==
    /\ Len(stims) < MaxSamples
    /\ v \in cfg.stim_values
    /\ stims' = Append(stims, v)
    /\ n_new_samples' = n_new_samples + 1
    /\ UNCHANGED <<programs, call, cfg, self_vars, last, new_new_epochs, pools, stream_epochs,
                   caller, last_call, inserted, n_connects>>

\* ---------------------------------------------------------------- connect
\* (mutant of ConnectSkip: the new delay is stored before the warning)
ConnectSkipStoresDelay(d) ==
    /\ caller.pc = "ready"
    /\ connected
    /\ acquisition_delay' = Some(d)
    /\ last_call' = Returned("connect", Some(d), None)
    /\ UNCHANGED <<programs, call, cfg, stims, n_new_samples, buffer, executor, info, last_ts,
                   n_new_epochs, picks, last, new_new_epochs, pools,
                   stream_epochs, caller, inserted, n_connects>>

\* connect() on a connected instance: a warning, nothing else
ConnectSkip(d) ==
    /\ caller.pc = "ready"
    /\ connected
    /\ last_call' = Returned("connect", Some(d), None)
    /\ UNCHANGED <<programs, call, cfg, stims, n_new_samples, self_vars, last, new_new_epochs,
                   pools, stream_epochs, caller, inserted, n_connects>>

\* connect() on a partially initialised instance: the sanity-check of
\* `connected` raises
ConnectAsserts(d) ==
    /\ caller.pc = "ready"
    /\ connected_asserts
    /\ last_call' = Raised("connect", None, "AssertionError")
    /\ UNCHANGED <<programs, call, cfg, stims, n_new_samples, self_vars, last, new_new_epochs,
                   pools, stream_epochs, caller, inserted, n_connects>>

\* connect() with a negative delay: ValueError before any assignment
ConnectInvalid(d) ==
    /\ caller.pc = "ready"
    /\ disconnected
    /\ d < 0
    /\ last_call' = Raised("connect", Some(d), "ValueError")
    /\ UNCHANGED <<programs, call, cfg, stims, n_new_samples, self_vars, last, new_new_epochs,
                   pools, stream_epochs, caller, inserted, n_connects>>

\* connect() on a disconnected instance with a valid delay.  The delay is
\* stored first; the sanity-check `assert self._n_new_epochs == 0` and the
\* resolution of the picks given to __init__ raise after that.  Otherwise
\* the zero buffer is allocated and, for a non-zero delay, the executor is
\* created with the first acquisition job submitted.
\* whether connect() creates a ThreadPoolExecutor for the delay d
UsesExecutor(d) == d # 0

\* (mutant of Zeros: np.empty, the memory is not cleared)
NotCleared(n_epochs, n_samples, n_picks) ==
    [e \in 1..n_epochs |-> [j \in 1..n_samples |-> [p \in 1..n_picks |-> 1]]]

\* np.zeros((n_epochs, n_samples, n_picks))
Zeros(n_epochs, n_samples, n_picks) ==
    [e \in 1..n_epochs |-> [j \in 1..n_samples |-> [p \in 1..n_picks |-> 0]]]

ConnectNew(d) ==
    /\ caller.pc = "ready"
    /\ disconnected
    /\ d >= 0
    /\ n_connects < MaxConnects
    /\ acquisition_delay' = Some(d)
    /\ IF n_new_epochs # 0
       THEN /\ last_call' = Raised("connect", Some(d), "AssertionError")
            /\ UNCHANGED <<picks, info, buffer, pools, executor, inserted,
                           n_connects>>
       ELSE IF InitPicksToIdx(cfg.picks_init) = None
       THEN /\ last_call' = Raised("connect", Some(d), "ValueError")
            /\ UNCHANGED <<picks, info, buffer, pools, executor, inserted,
                           n_connects>>
       ELSE /\ picks' = InitPicksToIdx(cfg.picks_init)
            /\ info' = Some([sfreq |-> cfg.sfreq,
                             ch_names |->
                                [c \in 1..Len(Get(picks')) |->
                                    ChNames[Get(picks')[c] + 1]]])
            /\ buffer' = Some(
                  Zeros(cfg.bufsize,
                        Ceil((cfg.tmax - cfg.tmin) * cfg.sfreq, cfg.time_den),
                        Len(Get(picks'))))
            /\ IF UsesExecutor(d)
               THEN /\ pools' = Append(pools, [IdlePool EXCEPT !.pending = TRUE])
                    /\ executor' = Some(Len(pools) + 1)
               ELSE /\ pools' = pools
                    /\ executor' = None
            /\ last_call' = Returned("connect", Some(d), None)
            /\ inserted' = << >>
            /\ n_connects' = n_connects + 1
    /\ UNCHANGED <<programs, call, cfg, stims, n_new_samples, last_ts, n_new_epochs, last,
                   new_new_epochs, stream_epochs, caller>>

\* connect() on a disconnected instance while a stale worker i runs its
\* pending assignment between two statements of connect().  `self._info =
\* None` after line 306 makes self._info["sfreq"] (line 310) raise TypeError;
\* `self._picks = None` after line 303 makes self._picks.size (line 311) raise
\* AttributeError.  The attributes assigned so far stay.
ConnectRaced(d) ==
    /\ caller.pc = "ready"
    /\ disconnected
    /\ d >= 0
    /\ n_new_epochs = 0
    /\ InitPicksToIdx(cfg.picks_init) # None
    /\ \E i \in StaleWorkers :
          /\ pools' = PoolsAfterStaleWrite(i)
          /\ acquisition_delay' = Some(d)
          /\ IF pools[i].pc = "reset4"
             THEN /\ picks' = InitPicksToIdx(cfg.picks_init)
                  /\ info' = None
                  /\ last_call' = Raised("connect", Some(d), "TypeError")
             ELSE /\ picks' = None
                  /\ info' = Some([sfreq |-> cfg.sfreq, ch_names |-> ChNames])
                  /\ last_call' = Raised("connect", Some(d), "AttributeError")
    /\ UNCHANGED <<programs, call, cfg, stims, n_new_samples, buffer, executor, last_ts,
                   n_new_epochs, last, new_new_epochs, stream_epochs, caller,
                   inserted, n_connects>>

Connect(d) ==
    \/ ConnectSkip(d)
    \/ ConnectAsserts(d)
    \/ ConnectInvalid(d)
    \/ ConnectNew(d)
    \/ ConnectRaced(d)

\* ------------------------------------------------------------- disconnect
\* disconnect() on a disconnected instance: a warning, and self is removed
\* from the stream's _epochs list
DisconnectSkip ==
    /\ caller.pc = "ready"
    /\ disconnected
    /\ stream_epochs' = FALSE
    /\ last_call' = Returned("disconnect", None, None)
    /\ UNCHANGED <<programs, call, cfg, stims, n_new_samples, self_vars, last, new_new_epochs,
                   pools, caller, inserted, n_connects>>

\* disconnect() on a partially initialised instance: the sanity-check of
\* `connected` raises
DisconnectAsserts ==
    /\ caller.pc = "ready"
    /\ connected_asserts
    /\ last_call' = Raised("disconnect", None, "AssertionError")
    /\ UNCHANGED <<programs, call, cfg, stims, n_new_samples, self_vars, last, new_new_epochs,
                   pools, stream_epochs, caller, inserted, n_connects>>

\* disconnect() in manual mode: no executor, the variables are reset at once
\* and self is removed from the stream's _epochs list
DisconnectManual ==
    /\ caller.pc = "ready"
    /\ connected
    /\ executor = None
    /\ reset_variables
    /\ stream_epochs' = FALSE
    /\ last_call' = Returned("disconnect", None, None)
    /\ UNCHANGED <<programs, call, cfg, stims, n_new_samples, last, new_new_epochs, pools,
                   caller, inserted, n_connects>>

\* disconnect() in automatic mode, first half:
\* executor.shutdown(wait=True, cancel_futures=True) marks the pool shut
\* down, cancels the job not yet started and blocks the caller.
DisconnectShutdown ==
    /\ caller.pc = "ready"
    /\ connected
    /\ executor # None
    /\ pools' = [pools EXCEPT ![Get(executor)].shutdown = TRUE,
                              ![Get(executor)].pending = FALSE]
    /\ caller' = [pc |-> "shutdown", pool |-> Get(executor)]
    /\ UNCHANGED <<programs, call, cfg, stims, n_new_samples, self_vars, last, new_new_epochs,
                   stream_epochs, last_call, inserted, n_connects>>

\* second half: the worker has finished its job, shutdown() returns, the
\* variables are reset and self is removed from the stream's _epochs list
DisconnectReset ==
    /\ caller.pc = "shutdown"
    /\ ~Running(caller.pool)
    /\ reset_variables
    /\ stream_epochs' = FALSE
    /\ caller' = [pc |-> "ready", pool |-> 0]
    /\ last_call' = Returned("disconnect", None, None)
    /\ UNCHANGED <<programs, call, cfg, stims, n_new_samples, last, new_new_epochs, pools,
                   inserted, n_connects>>

\* disconnect() racing with a failing worker: `connected` was True, then the
\* worker set self._executor to None.  Read before line 338, the None skips
\* shutdown(): the caller resets the variables itself and returns while the
\* worker is still inside _reset_variables.
DisconnectRaced ==
    /\ caller.pc = "ready"
    /\ FailingWorker
    /\ pools' = PoolsAfterExecutorReset
    /\ reset_variables
    /\ stream_epochs' = FALSE
    /\ last_call' = Returned("disconnect", None, None)
    /\ UNCHANGED <<programs, call, cfg, stims, n_new_samples, last, new_new_epochs, caller,
                   inserted, n_connects>>

\* the same race with the None read by line 339, after the test of line 338:
\* None.shutdown raises AttributeError, nothing is reset by the caller
DisconnectRacedError ==
    /\ caller.pc = "ready"
    /\ FailingWorker
    /\ pools' = PoolsAfterExecutorReset
    /\ acquisition_delay' = None
    /\ buffer' = None
    /\ executor' = None
    /\ last_call' = Raised("disconnect", None, "AttributeError")
    /\ UNCHANGED <<programs, call, cfg, stims, n_new_samples, info, last_ts, n_new_epochs,
                   picks, last, new_new_epochs, stream_epochs, caller,
                   inserted, n_connects>>

Disconnect ==
    \/ DisconnectSkip
    \/ DisconnectAsserts
    \/ DisconnectManual
    \/ DisconnectShutdown
    \/ DisconnectReset
    \/ DisconnectRaced
    \/ DisconnectRacedError

\* ---------------------------------------------------------------- get_data
\* _picks_to_idx(self._info, picks, none="all"): the channel indices; on a
\* disconnected instance self._info is None and mne raises TypeError
PicksToIdx(p) == IF p = None THEN <<0, 1>> ELSE Get(p)

\* (mutant of GetDataArray: the selection is returned without the transpose)
GetDataArrayNoTranspose(buf, pk) ==
    [e \in 1..Len(buf) |->
        [j \in 1..Len(buf[e]) |->
            [c \in 1..Len(pk) |-> buf[e][j][pk[c] + 1]]]]

\* np.transpose(self._buffer[:, :, picks], axes=(0, 2, 1))
GetDataArray(buf, pk) ==
    [e \in 1..Len(buf) |->
        [c \in 1..Len(pk) |->
            [j \in 1..Len(buf[e]) |-> buf[e][j][pk[c] + 1]]]]

\* (mutant of get_data: the buffer is released once it has been read)
get_data_releasing(p) ==
    /\ caller.pc = "ready"
    /\ buffer # None /\ info # None
    /\ buffer' = None
    /\ new_new_epochs' = Some(0)
    /\ last_call' = Returned("get_data", p,
                             Some(GetDataArray(Get(buffer), PicksToIdx(p))))
    /\ UNCHANGED <<programs, call, cfg, stims, n_new_samples, acquisition_delay,
                   executor, info, last_ts, n_new_epochs, picks, last, pools,
                   stream_epochs, caller, inserted, n_connects>>

get_data(p) ==
    /\ caller.pc = "ready"
    /\ IF info = None
       THEN /\ last_call' = Raised("get_data", p, "TypeError")
            /\ UNCHANGED new_new_epochs
       ELSE /\ new_new_epochs' = Some(0)
            /\ last_call' =
                 IF buffer = None
                 THEN Raised("get_data", p, "TypeError")
                 ELSE Returned("get_data", p,
                               Some(GetDataArray(Get(buffer), PicksToIdx(p))))
    /\ UNCHANGED <<programs, call, cfg, stims, n_new_samples, self_vars, last, pools,
                   stream_epochs, caller, inserted, n_connects>>


\* ----------------------------------------------------------------- acquire
\* acquire() on a disconnected instance: RuntimeError of _check_connected
AcquireNotConnected ==
    /\ caller.pc = "ready"
    /\ disconnected
    /\ last_call' = Raised("acquire", None, "RuntimeError")
    /\ UNCHANGED <<programs, call, cfg, stims, n_new_samples, self_vars, last, new_new_epochs,
                   pools, stream_epochs, caller, inserted, n_connects>>

\* acquire() on a partially initialised instance: the sanity-check of
\* `connected` raises
AcquireAsserts ==
    /\ caller.pc = "ready"
    /\ connected_asserts
    /\ last_call' = Raised("acquire", None, "AssertionError")
    /\ UNCHANGED <<programs, call, cfg, stims, n_new_samples, self_vars, last, new_new_epochs,
                   pools, stream_epochs, caller, inserted, n_connects>>

\* the condition under which acquire() raises RuntimeError: an executor
\* exists (the two branches, for a zero and for a non-zero delay, both raise)
AcquireRefused == executor # None

\* acquire() while an executor exists: RuntimeError, _acquire is not called
AcquireAutomatic ==
    /\ caller.pc = "ready"
    /\ connected
    /\ AcquireRefused
    /\ last_call' = Raised("acquire", None, "RuntimeError")
    /\ UNCHANGED <<programs, call, cfg, stims, n_new_samples, self_vars, last, new_new_epochs,
                   pools, stream_epochs, caller, inserted, n_connects>>

\* acquire() in manual mode: one run of _acquire in the caller's thread.
\* _submit_acquisition_job returns at once (no executor).  An exception in
\* the try block resets the variables and is re-raised in strict mode only.
AcquireManual ==
    /\ caller.pc = "ready"
    /\ connected
    /\ ~AcquireRefused
    /\ IF NoNewSamples
       THEN /\ last_call' = Stepped("no_samples")
            /\ UNCHANGED <<n_new_samples, self_vars, last, inserted>>
       ELSE /\ n_new_samples' = 0
            /\ IF NoNewEvents
               THEN /\ last_call' = Stepped("no_events")
                    /\ UNCHANGED <<self_vars, last, inserted>>
               ELSE IF ~StepExtractOk
                       \/ ~WriteOk(Roll(Get(buffer), Len(StepEvents)),
                                   StepSelection)
               THEN /\ reset_variables
                    /\ \E strict \in StrictModes :
                          last_call' = Failed("ValueError", strict)
                    /\ UNCHANGED <<last, inserted>>
               ELSE /\ buffer' = Some(WriteTail(
                                    Roll(Get(buffer), Len(StepEvents)),
                                    StepSelection))
                    /\ last' = Some(StepLastTs)
                    /\ n_new_epochs' = n_new_epochs + Len(StepEvents)
                    /\ inserted' = inserted \o LogOf(StepOnsets, StepSelection)
                    /\ last_call' = Stepped("inserted")
                    /\ UNCHANGED <<acquisition_delay, executor, info, last_ts,
                                   picks>>
    /\ UNCHANGED <<programs, call, cfg, stims, new_new_epochs, pools, stream_epochs, caller,
                   n_connects>>

\* acquire() racing with a failing worker: `connected` was True, then the
\* worker set self._executor to None before it was read by line 243, so
\* _acquire runs in the caller's thread.  With new samples it fails on
\* self._buffer, which is None, and resets the variables.
AcquireRaced ==
    /\ caller.pc = "ready"
    /\ FailingWorker
    /\ pools' = PoolsAfterExecutorReset
    /\ IF NoNewSamples
       THEN /\ acquisition_delay' = None
            /\ buffer' = None
            /\ executor' = None
            /\ last_call' = Stepped("no_samples")
            /\ UNCHANGED <<n_new_samples, info, last_ts, n_new_epochs, picks>>
       ELSE /\ n_new_samples' = 0
            /\ reset_variables
            /\ \E strict \in StrictModes :
                  last_call' = Failed("AttributeError", strict)
    /\ UNCHANGED <<programs, call, cfg, stims, last, new_new_epochs, stream_epochs, caller,
                   inserted, n_connects>>

\* acquire() in manual mode racing with a stale worker i, whose pending
\* assignment (self._info = None or self._picks = None) comes after
\* _check_connected and before the step reads the attribute: the step fails
\* with TypeError and resets the variables.
AcquireManualRaced ==
    /\ caller.pc = "ready"
    /\ connected
    /\ ~AcquireRefused
    /\ ~NoNewSamples
    /\ n_new_samples' = 0
    /\ reset_variables
    /\ \E i \in StaleWorkers : pools' = PoolsAfterStaleWrite(i)
    /\ \E strict \in StrictModes : last_call' = Failed("TypeError", strict)
    /\ UNCHANGED <<programs, call, cfg, stims, last, new_new_epochs, stream_epochs, caller,
                   inserted, n_connects>>

acquire ==
    \/ AcquireNotConnected
    \/ AcquireAsserts
    \/ AcquireAutomatic
    \/ AcquireManual
    \/ AcquireRaced
    \/ AcquireManualRaced

\* ------------------------------------------------- the background worker
SetPool(i, pc, loc) ==
    pools' = [pools EXCEPT ![i].pc = pc, ![i].loc = loc, ![i].pending = FALSE]

\* the worker's local variable in the except clause: the exception caught
Caught(error) == Some([error |-> error])

\* The worker of pool i starts the submitted _acquire job and runs it up to
\* data_selection (lines 379-460).  With no new sample or no surviving event
\* it goes to _submit_acquisition_job; an exception takes it to the except
\* clause.
WorkerStart(i) ==
    /\ i \in DOMAIN pools
    /\ pools[i].pending
    /\ pools[i].pc = "idle"
    /\ IF NoNewSamples
       THEN /\ SetPool(i, "submit", None)
            /\ UNCHANGED n_new_samples
       ELSE /\ n_new_samples' = 0
            /\ IF info = None \/ buffer = None \/ picks = None
               THEN SetPool(i, "reset1", Caught("TypeError"))
               ELSE IF NoNewEvents
               THEN SetPool(i, "submit", None)
               ELSE IF ~StepExtractOk
               THEN SetPool(i, "reset1", Caught("ValueError"))
               ELSE SetPool(i, "roll",
                            Some([sel |-> StepSelection,
                                  onsets |-> StepOnsets,
                                  last |-> StepLastTs]))
    /\ UNCHANGED <<programs, call, cfg, stims, self_vars, last, new_new_epochs, stream_epochs,
                   caller, last_call, inserted, n_connects>>

\* self._buffer = np.roll(self._buffer, -events.shape[0], axis=0)
WorkerRoll(i) ==
    /\ i \in DOMAIN pools
    /\ pools[i].pc = "roll"
    /\ IF buffer = None
       THEN SetPool(i, "reset1", Caught("TypeError")) /\ UNCHANGED buffer
       ELSE /\ buffer' = Some(Roll(Get(buffer), Len(Get(pools[i].loc).sel)))
            /\ SetPool(i, "write", pools[i].loc)
    /\ UNCHANGED <<programs, call, cfg, stims, n_new_samples, acquisition_delay, executor,
                   info, last_ts, n_new_epochs, picks, last, new_new_epochs,
                   stream_epochs, caller, last_call, inserted, n_connects>>

\* self._buffer[-events.shape[0]:, :, :] = data_selection
WorkerWrite(i) ==
    /\ i \in DOMAIN pools
    /\ pools[i].pc = "write"
    /\ IF buffer = None \/ ~WriteOk(Get(buffer), Get(pools[i].loc).sel)
       THEN /\ SetPool(i, "reset1",
                       Caught(IF buffer = None THEN "TypeError"
                              ELSE "ValueError"))
            /\ UNCHANGED <<buffer, inserted>>
       ELSE /\ buffer' = Some(WriteTail(Get(buffer), Get(pools[i].loc).sel))
            /\ inserted' = inserted \o LogOf(Get(pools[i].loc).onsets,
                                             Get(pools[i].loc).sel)
            /\ SetPool(i, "update", pools[i].loc)
    /\ UNCHANGED <<programs, call, cfg, stims, n_new_samples, acquisition_delay, executor,
                   info, last_ts, n_new_epochs, picks, last, new_new_epochs,
                   stream_epochs, caller, last_call, n_connects>>

\* self._last = ts[events[-1, 0]]; self._n_new_epochs += events.shape[0]
WorkerUpdate(i) ==
    /\ i \in DOMAIN pools
    /\ pools[i].pc = "update"
    /\ last' = Some(Get(pools[i].loc).last)
    /\ n_new_epochs' = n_new_epochs + Len(Get(pools[i].loc).sel)
    /\ SetPool(i, "submit", None)
    /\ UNCHANGED <<programs, call, cfg, stims, n_new_samples, acquisition_delay, buffer,
                   executor, info, last_ts, picks, new_new_epochs,
                   stream_epochs, caller, last_call, inserted, n_connects>>

\* (mutant of WorkerSubmit: the job ends without being submitted again)
WorkerSubmitNever(i) ==
    /\ i \in DOMAIN pools
    /\ pools[i].pc = "submit"
    /\ SetPool(i, "idle", None)
    /\ UNCHANGED <<programs, call, cfg, stims, n_new_samples, self_vars, last, new_new_epochs,
                   stream_epochs, caller, last_call, inserted, n_connects>>

\* _submit_acquisition_job: nothing without an executor; otherwise sleep and
\* submit _acquire to self._executor, which raises RuntimeError (ignored)
\* when that executor was shut down.
WorkerSubmit(i) ==
    /\ i \in DOMAIN pools
    /\ pools[i].pc = "submit"
    /\ IF executor = None \/ pools[Get(executor)].shutdown
       THEN SetPool(i, "idle", None)
       ELSE pools' = [pools EXCEPT ![i].pc = "idle", ![i].loc = None,
                                   ![Get(executor)].pending = TRUE]
    /\ UNCHANGED <<programs, call, cfg, stims, n_new_samples, self_vars, last, new_new_epochs,
                   stream_epochs, caller, last_call, inserted, n_connects>>

\* The except clause of _acquire in the worker of pool i: the k-th assignment
\* of _reset_variables, k = 1..6, one at a time.
WorkerReset(i) ==
    /\ i \in DOMAIN pools
    /\ \E k \in 1..6 :
          /\ pools[i].pc = ResetPcs[k]
          /\ ResetStatement(k)
          /\ pools' = [pools EXCEPT ![i].pc = ResetPcs[k + 1]]
    /\ UNCHANGED <<programs, call, cfg, stims, n_new_samples, last, new_new_epochs,
                   stream_epochs, caller, last_call, inserted, n_connects>>

\* (mutant of WorkerResetEnd: the failed job is submitted again)
WorkerResetEndResubmits(i) ==
    /\ i \in DOMAIN pools
    /\ pools[i].pc = "reset7"
    /\ ResetStatement(7)
    /\ pools' = [pools EXCEPT ![i].pc = "idle", ![i].loc = None,
                              ![i].pending = TRUE]
    /\ UNCHANGED <<programs, call, cfg, stims, n_new_samples, last, new_new_epochs,
                   stream_epochs, caller, last_call, inserted, n_connects>>

\* The last assignment of _reset_variables and the end of the job.  In
\* strict mode the error is re-raised into the job's future, which nothing
\* holds: the job ends the same way in both modes, and is not resubmitted.
WorkerResetEnd(i) ==
    /\ i \in DOMAIN pools
    /\ pools[i].pc = "reset7"
    /\ ResetStatement(7)
    /\ pools' = [pools EXCEPT ![i].pc = "idle", ![i].loc = None]
    /\ UNCHANGED <<programs, call, cfg, stims, n_new_samples, last, new_new_epochs,
                   stream_epochs, caller, last_call, inserted, n_connects>>

Worker(i) ==
    \/ WorkerStart(i)
    \/ WorkerRoll(i)
    \/ WorkerWrite(i)
    \/ WorkerUpdate(i)
    \/ WorkerSubmit(i)
    \/ WorkerReset(i)
    \/ WorkerResetEnd(i)

\* ------------------------------------------------------------------ Next
Next ==
    \/ \E v \in StimValues : StreamPush(v)
    \/ \E d \in Delays : Connect(d)
    \/ Disconnect
    \/ acquire
    \/ \E p \in PicksArgs : get_data(p)
    \/ \E i \in PoolIds : Worker(i)

Spec == Init /\ [][Next]_vars

\* The thread of every ThreadPoolExecutor is scheduled: a worker that can
\* take a step (start the submitted job, run its next statement, return from
\* sleep and resubmit) eventually takes it.  Nothing is assumed of the caller
\* and of the source stream.
\*
\* WorkerStartEnabled(i) is the guard of WorkerStart(i), whose step always
\* changes pools[i]: it is ENABLED <<WorkerStart(i)>>_vars, and WorkerStartFair
\* is WF_vars(WorkerStart(i)) with that guard written in place of ENABLED.
WorkerStartEnabled(i) ==
    i \in DOMAIN pools /\ pools[i].pending /\ pools[i].pc = "idle"
WorkerStartFair(i) ==
    []<>(~WorkerStartEnabled(i)) \/ []<><<WorkerStart(i)>>_vars
Fairness ==
    \A i \in PoolIds :
        /\ WorkerStartFair(i)
        /\ WF_vars(WorkerRoll(i))
        /\ WF_vars(WorkerWrite(i))
        /\ WF_vars(WorkerUpdate(i))
        /\ WF_vars(WorkerSubmit(i))
        /\ WF_vars(WorkerReset(i))
        /\ WF_vars(WorkerResetEnd(i))
\* The liveness specification starts from the configurations whose stim
\* channel takes two values.
LiveConfigs == {c \in Configs : Cardinality(c.stim_values) = 2}
LiveInit == Init /\ cfg \in LiveConfigs
LiveSpec == LiveInit /\ [][Next]_vars /\ Fairness


\* ------------------------------------------------- the step as a function
\* The computation of one acquisition step (_acquire, lines 387-458), applied
\* to bounded arguments: the source stream holds FnLen samples of one data
\* channel and two stim channels; the events come from the stim channels of
\* the source ("stim") or from a regularly sampled event stream ("regular").
FnLen == 4
FnSfreq == 2
FnTimeDen == 4
\* timestamps and data channel of the source stream
FnTs == [i \in 1..FnLen |-> 10 * i]
FnEeg == [i \in 1..FnLen |-> 10 + i]
\* contents of a stim channel
StimSeqs == [1..FnLen -> StimValues]
\* contents of the second stim channel of the source
SecondStims == {<<0, 0, 0, 0>>, <<0, 1, 0, 0>>, <<0, 0, 2, 2>>}
\* timestamps of the samples of the event stream: aligned with the source,
\* delayed, and irregularly late
EventTimestamps == {<<10, 20, 30, 40>>, <<5, 15, 25, 35>>, <<12, 14, 26, 45>>}
\* (tmin, tmax) in units of 1/FnTimeDen second, all with tmax > tmin and an
\* epoch no longer than the source buffer
FnTimes ==
    { [tmin |-> -2, tmax |-> 1], [tmin |-> 0, tmax |-> 2],
      [tmin |-> 2, tmax |-> 6], [tmin |-> -6, tmax |-> -2] }
FnEventIds == {{2}, {1, 2}}
FnLastTs == {None, Some(20)}

StepCalls ==
    [fn : {"step"}, source : {"stim"}, stim : StimSeqs, second : SecondStims,
     event_channels : {<<1>>, <<1, 2>>}, ts_events : {None},
     event_id : FnEventIds, times : FnTimes, last_ts : FnLastTs, out : {None}]
    \cup
    [fn : {"step"}, source : {"regular"}, stim : StimSeqs,
     second : {<<0, 0, 0, 0>>}, event_channels : {<<0>>},
     ts_events : {Some(t) : t \in EventTimestamps},
     event_id : FnEventIds, times : FnTimes, last_ts : FnLastTs, out : {None}]

\* self._buffer.shape[1], as allocated by connect()
FnNSamples(times) == Ceil((times.tmax - times.tmin) * FnSfreq, FnTimeDen)
\* round(self._tmin * self._info["sfreq"])
FnShift(times) == Round(times.tmin * FnSfreq, FnTimeDen)

\* What the step computes for the call c: the events detected, the events
\* after each step of _prune_events, whether the extraction loop succeeds
\* and the epochs it selects (picks: the data channel).
StepOf(c) ==
    LET data   == <<FnEeg, c.stim, c.second>>
        found  == IF c.source = "stim"
                  THEN find_events_in_stim_channels(data, c.event_channels)
                  ELSE find_events_in_stim_channels(<<c.stim>>, <<0>>)
        n      == FnNSamples(c.times)
        shift  == FnShift(c.times)
        allowed  == PruneAllowed(found, Some(c.event_id))
        anchored == PruneAnchored(allowed, FnTs, c.ts_events)
        fitting  == PruneFitting(anchored, n, FnTs)
        events == prune_events(found, Some(c.event_id), n, FnTs, c.last_ts,
                               c.ts_events)
        ok == \A k \in 1..Len(events) :
                  ExtractOk(FnTs, events[k].idx + shift, n)
    IN  [found |-> found, allowed |-> allowed, anchored |-> anchored,
         fitting |-> fitting, events |-> events, ok |-> ok,
         selection |->
            IF ok
            THEN [k \in 1..Len(events) |->
                    ExtractEpoch(data, <<0>>, events[k].idx + shift, n)]
            ELSE << >>]

\* the variables of the instance stay as before construction
NoInstance ==
    /\ cfg = None
    /\ stims = << >>
    /\ n_new_samples = 0
    /\ acquisition_delay = None
    /\ buffer = None
    /\ executor = None
    /\ info = None
    /\ last_ts = None
    /\ n_new_epochs = 0
    /\ picks = None
    /\ last = None
    /\ new_new_epochs = None
    /\ pools = << >>
    /\ stream_epochs = FALSE
    /\ caller = [pc |-> "ready", pool |-> 0]
    /\ last_call = [op |-> "init", arg |-> None, raised |-> "", ret |-> None,
                    step |-> ""]
    /\ inserted = << >>
    /\ n_connects = 0

instance_vars ==
    <<cfg, stims, n_new_samples, self_vars, last, new_new_epochs, pools,
      stream_epochs, caller, last_call, inserted, n_connects>>

ApplyStep ==
    /\ call # None
    /\ call.fn = "step"
    /\ call.out = None
    /\ call' = [call EXCEPT !.out = Some(StepOf(call))]
    /\ UNCHANGED <<instance_vars, programs>>

\* ------------------------------------- events of an irregular event stream
\* The branch of _acquire for an event stream with sfreq 0 (lines 421-435),
\* up to the array `events` given to _prune_events.  `data` is the array of
\* the source stream, one row per channel; the event stream has two one-hot
\* channels and `hot` gives, for each of its samples, the channel that is 1.
\* np.argmax of a row: the first position of its maximum
ArgMax(row) ==
    CHOOSE i \in 0..(Len(row) - 1) :
        /\ \A j \in 1..Len(row) : row[j] <= row[i + 1]
        /\ \A j \in 1..i : row[j] < row[i + 1]
\* data of the source stream: one, two or three channels of FnLen samples
SourceArrays ==
    { <<FnEeg>>, <<FnEeg, <<0, 0, 2, 0>>>>,
      <<FnEeg, <<0, 0, 2, 0>>, <<3, 1, 0, 0>>>> }
MaxEventSamples == 3
HotChannels == UNION {[1..n -> {0, 1}] : n \in 1..MaxEventSamples}
IrregularCalls ==
    [fn : {"irregular"}, data : SourceArrays, hot : HotChannels, out : {None}]

\* data_events of the call: one row per event channel
DataEvents(hot) ==
    [c \in 1..2 |-> [k \in 1..Len(hot) |-> IF hot[k] = c - 1 THEN 1 ELSE 0]]

\* np.vstack([np.arange(ts_events.size), np.zeros(ts_events.size),
\*            np.argmax(data, axis=1)], dtype=np.int64): the three rows must
\* have the same length, else ValueError; the result has one row per array.
IrregularEvents(data, n_events) ==
    LET rows == << [k \in 1..n_events |-> k - 1],
                   [k \in 1..n_events |-> 0],
                   [c \in 1..Len(data) |-> ArgMax(data[c])] >>
    IN  IF Len(rows[3]) # n_events
        THEN [raised |-> "ValueError", events |-> << >>]
        ELSE [raised |-> "", events |-> rows]

ApplyIrregular ==
    /\ call # None
    /\ call.fn = "irregular"
    /\ call.out = None
    /\ call' = [call EXCEPT
                   !.out = Some(IrregularEvents(call.data, Len(call.hot)))]
    /\ UNCHANGED <<instance_vars, programs>>

\* ------------------------------------------------------------ construction
\* The checks of EpochsStream.__init__ on tmin, tmax, bufsize and event_id
\* (lines 151-197), for a connected source stream and valid event channels.
\* Times and the length of the source buffer are in seconds.  An event_id is
\* an int, or a dict given as the set of its (key, value) items.
IntId(v) == [kind |-> "int", value |-> v, items |-> {}]
DictId(items) == [kind |-> "dict", value |-> 0, items |-> items]
EventIdArgs ==
    { IntId(-1), IntId(0), IntId(2),
      DictId({}), DictId({<<"target", 2>>}), DictId({<<"", 2>>}),
      DictId({<<"target", 0>>}), DictId({<<"a", 1>>, <<"b", -1>>}) }
ConstructTimes == -1..2
ConstructCalls ==
    [fn : {"construct"}, tmin : ConstructTimes, tmax : ConstructTimes,
     stream_bufsize : {1, 2}, bufsize : -1..2, event_id : EventIdArgs,
     out : {None}]

\* (mutant of EventIdRaises: the values of a dict are not checked)
EventIdRaisesOnKeys(event_id) ==
    IF event_id.kind = "int" THEN event_id.value <= 0
    ELSE \E item \in event_id.items : item[1] = ""

\* _ensure_event_id_dict: whether it raises ValueError
EventIdRaises(event_id) ==
    IF event_id.kind = "int" THEN event_id.value <= 0
    ELSE \E item \in event_id.items : item[1] = "" \/ item[2] <= 0

\* _ensure_event_id_dict: the dict it returns; str(v) is the pair <<"str", v>>
EventIdDict(event_id) ==
    IF event_id.kind = "int"
    THEN {<< <<"str", event_id.value>>, event_id.value >>}
    ELSE event_id.items

\* __init__: the exception it raises, or the attributes of the new instance
Construct(c) ==
    IF c.tmax <= c.tmin THEN Raises("ValueError")
    ELSE IF c.stream_bufsize < c.tmax - c.tmin THEN Raises("ValueError")
    ELSE IF c.bufsize <= 0 THEN Raises("ValueError")
    ELSE IF EventIdRaises(c.event_id) THEN Raises("ValueError")
    ELSE Value([tmin |-> c.tmin, tmax |-> c.tmax, bufsize |-> c.bufsize,
                event_id |-> EventIdDict(c.event_id)])

\* __init__ appends self to stream._epochs (line 150) before any of the
\* checks, and no statement removes it when a check raises.
ApplyConstruct ==
    /\ call # None
    /\ call.fn = "construct"
    /\ call.out = None
    /\ call' = [call EXCEPT !.out = Some(Construct(call))]
    /\ stream_epochs' = TRUE
    /\ UNCHANGED <<cfg, stims, n_new_samples, self_vars, last, new_new_epochs,
                   pools, caller, last_call, inserted, n_connects, programs>>

\* ------------------------------------- baseline and rejection time window
\* The checks of __init__ on baseline, reject_tmin and reject_tmax (lines 198
\* and 202), reached once tmax > tmin has been checked.  A bound is None or a
\* number of seconds; a baseline is None or a tuple of bounds.
WindowBounds == {None} \cup {Some(t) : t \in -2..3}
Baselines ==
    {None} \cup {<<Some(0)>>} \cup {<<a, b>> : a \in WindowBounds, b \in WindowBounds}
WindowCalls ==
    [fn : {"windows"}, tmin : {-1, 0}, tmax : {1, 2}, baseline : Baselines,
     reject_tmin : WindowBounds, reject_tmax : WindowBounds, out : {None}]

\* _check_baseline: whether it raises ValueError
check_baseline(baseline, tmin, tmax) ==
    IF baseline = None THEN FALSE
    ELSE IF Len(baseline) # 2 THEN TRUE
    ELSE IF baseline[1] # None /\ Get(baseline[1]) < tmin THEN TRUE
    ELSE baseline[2] # None /\ tmax < Get(baseline[2])

\* _check_reject_tmin_tmax: whether it raises ValueError
check_reject_tmin_tmax(reject_tmin, reject_tmax, tmin, tmax) ==
    IF reject_tmin # None /\ Get(reject_tmin) < tmin THEN TRUE
    ELSE IF reject_tmax # None /\ tmax < Get(reject_tmax) THEN TRUE
    ELSE /\ reject_tmin # None
         /\ reject_tmax # None
         /\ Get(reject_tmax) <= Get(reject_tmin)

\* __init__, lines 198-203: the exception raised, or the attributes stored
ConstructWindows(c) ==
    IF check_baseline(c.baseline, c.tmin, c.tmax) THEN Raises("ValueError")
    ELSE IF check_reject_tmin_tmax(c.reject_tmin, c.reject_tmax, c.tmin, c.tmax)
    THEN Raises("ValueError")
    ELSE Value([baseline |-> c.baseline, reject_tmin |-> c.reject_tmin,
                reject_tmax |-> c.reject_tmax])

ApplyWindows ==
    /\ call # None
    /\ call.fn = "windows"
    /\ call.out = None
    /\ call' = [call EXCEPT !.out = Some(ConstructWindows(call))]
    /\ UNCHANGED <<instance_vars, programs>>

\* ------------------------------------------------------------- insertion
\* The insertion of a batch into the buffer by _acquire (lines 461-463), for a
\* buffer of 1..MaxCapacity epochs and a batch of 1..MaxBatch epochs of one
\* sample and one channel.  Epoch <<<<0>>>> is the zero epoch of connect();
\* the batch holds the epochs 11, 12, .. in onset order.
MaxCapacity == 2
MaxBatch == 3
FnEpoch(x) == <<<<x>>>>
FnBuffers ==
    UNION {[1..n -> {FnEpoch(0), FnEpoch(5)}] : n \in 1..MaxCapacity}
FnBatch(k) == [i \in 1..k |-> FnEpoch(10 + i)]
InsertCalls ==
    [fn : {"insert"}, buffer : FnBuffers, batch : {FnBatch(k) : k \in 1..MaxBatch},
     out : {None}]

\* self._buffer = np.roll(self._buffer, -k, axis=0);
\* self._buffer[-k:, :, :] = data_selection
InsertBatch(buf, sel) ==
    LET rolled == Roll(buf, Len(sel))
    IN  IF WriteOk(rolled, sel) THEN Value(WriteTail(rolled, sel))
        ELSE Raises("ValueError")

ApplyInsert ==
    /\ call # None
    /\ call.fn = "insert"
    /\ call.out = None
    /\ call' = [call EXCEPT !.out = Some(InsertBatch(call.buffer, call.batch))]
    /\ UNCHANGED <<instance_vars, programs>>

FnCalls ==
    StepCalls \cup IrregularCalls \cup ConstructCalls \cup WindowCalls
        \cup InsertCalls
FnInit == NoInstance /\ NoPrograms /\ call \in FnCalls
FnNext ==
    \/ ApplyStep
    \/ ApplyIrregular
    \/ ApplyConstruct
    \/ ApplyWindows
    \/ ApplyInsert
FnSpec == FnInit /\ [][FnNext]_vars


\* ======================================================== bsl StreamPlayer
\* src/bsl/stream_player/stream_player.py.  `player` holds the StreamPlayer
\* (its _process handle, the shared mp.Value _state, the position of the
\* thread calling start()/stop()) and every child process it has launched,
\* each running _Streamer.stream on a file of n_samples samples.
MaxStarts == 2
MaxStops == 2
MaxPlayed == 2
Inf == -1
Repeats == {1, 2, Inf}
PlayerFiles == [n_samples : {2, 3}, chunk_size : {1, 2}]

\* played < self._repeat, with repeat possibly float('inf')
PlayedBelow(played, repeat) == repeat = Inf \/ played < repeat

PlayerInit ==
    /\ NoInstance
    /\ call = None
    /\ trigger = None
    /\ receiver = None
    /\ \E r \in Repeats, f \in PlayerFiles :
          player = [repeat |-> r, n_samples |-> f.n_samples,
                    chunk_size |-> f.chunk_size, process |-> None, state |-> 0,
                    pc |-> "ready", children |-> << >>, n_stops |-> 0]

player_frame == <<instance_vars, call, trigger, receiver>>

\* StreamPlayer.start
PlayerStart(blocking) ==
    /\ player.pc = "ready"
    /\ Len(player.children) < MaxStarts
    /\ player' = [player EXCEPT
          !.children = Append(@, [pc |-> "spawned", idx_chunk |-> 0,
                                  played |-> 0, born |-> player.n_stops]),
          !.process = Some(Len(player.children) + 1),
          !.pc = IF blocking THEN "wait" ELSE "ready"]
    /\ UNCHANGED player_frame

\* while self._state.value == 0: pass
PlayerStartWait ==
    /\ player.pc = "wait"
    /\ player.state # 0
    /\ player' = [player EXCEPT !.pc = "ready"]
    /\ UNCHANGED player_frame

\* StreamPlayer.stop without a process: a warning
PlayerStopSkip ==
    /\ player.pc = "ready"
    /\ player.process = None
    /\ player.n_stops < MaxStops
    /\ player' = [player EXCEPT !.n_stops = @ + 1]
    /\ UNCHANGED player_frame

\* StreamPlayer.stop: self._state.value = 0, then self._process.join(10)
PlayerStop ==
    /\ player.pc = "ready"
    /\ player.process # None
    /\ player.n_stops < MaxStops
    /\ player' = [player EXCEPT !.state = 0, !.pc = "join", !.n_stops = @ + 1]
    /\ UNCHANGED player_frame

\* join(10) returns with the process finished
PlayerStopJoined ==
    /\ player.pc = "join"
    /\ player.children[Get(player.process)].pc = "done"
    /\ player' = [player EXCEPT !.process = None, !.pc = "ready"]
    /\ UNCHANGED player_frame

\* join(10) times out: the process is still alive and is killed
PlayerStopKill ==
    /\ player.pc = "join"
    /\ player.children[Get(player.process)].pc # "done"
    /\ player' = [player EXCEPT
          !.children[Get(player.process)].pc = "killed",
          !.process = None, !.pc = "ready"]
    /\ UNCHANGED player_frame

\* _Streamer.stream up to the loop: self._state.value = 1
StreamerBegin(i) ==
    /\ i \in DOMAIN player.children
    /\ player.children[i].pc = "spawned"
    /\ player' = [player EXCEPT !.state = 1, !.children[i].pc = "test"]
    /\ UNCHANGED player_frame

\* while self._state.value == 1
StreamerTest(i) ==
    /\ i \in DOMAIN player.children
    /\ player.children[i].pc = "test"
    /\ player' = [player EXCEPT
          !.children[i].pc = IF player.state = 1 THEN "push" ELSE "done"]
    /\ UNCHANGED player_frame

\* one pass of the streaming loop
StreamerPush(i) ==
    /\ i \in DOMAIN player.children
    /\ player.children[i].pc = "push"
    /\ LET ch == player.children[i]
           idx_current == ch.idx_chunk * player.chunk_size
           finished == idx_current >= player.n_samples - player.chunk_size
       IN  /\ finished => ch.played < MaxPlayed
           /\ player' = [player EXCEPT !.children[i] =
                 IF ~finished
                 THEN [ch EXCEPT !.idx_chunk = @ + 1, !.pc = "test"]
                 ELSE [ch EXCEPT
                         !.idx_chunk = 0, !.played = @ + 1,
                         !.pc = IF PlayedBelow(ch.played + 1, player.repeat)
                                THEN "test" ELSE "done"]]
    /\ UNCHANGED player_frame

PlayerNext ==
    \/ \E blocking \in BOOLEAN : PlayerStart(blocking)
    \/ PlayerStartWait
    \/ PlayerStopSkip
    \/ PlayerStop
    \/ PlayerStopJoined
    \/ PlayerStopKill
    \/ \E i \in 1..MaxStarts : StreamerBegin(i)
    \/ \E i \in 1..MaxStarts : StreamerTest(i)
    \/ \E i \in 1..MaxStarts : StreamerPush(i)
PlayerSpec == PlayerInit /\ [][PlayerNext]_vars


\* ================================================ neurodecode TriggerArduino2LPT
\* src/neurodecode/triggers/lpt/arduino2lpt.py.  `trigger` holds the serial
\* port (open or not, and the last byte written to it: the trigger line), the
\* threading.Timer self._offtimer and the outcome of the last signal() call.
\* The timer is "new" (created, never started), "waiting" (started, before
\* its delay has elapsed), "firing" (inside _signal_off, after the write) or
\* "dead" (its thread has ended without replacing self._offtimer).  It is
\* alive while waiting or firing.
MaxSignals == 3
TriggerValues == 1..2
TriggerDelays == {50, 100}

\* threading.Timer.is_alive()
TimerAlive(timer) == timer \in {"waiting", "firing"}

\* The state after __init__.  _find_arduino_port returns nothing, so that
\* _com_port is None and serial.Serial(None, BAUD_RATE) stays closed until
\* the com_port setter connects.
TriggerInit ==
    /\ NoInstance
    /\ call = None
    /\ player = None
    /\ receiver = None
    /\ \E d \in TriggerDelays :
          trigger = [port_open |-> FALSE, line |-> None, timer |-> "new",
                     delay |-> d, ret |-> None, accepted |-> 0,
                     reset_since |-> FALSE]

trigger_frame == <<instance_vars, call, player, receiver>>

\* com_port setter: _connect_arduino opens a new serial.Serial
TriggerSetComPort ==
    /\ trigger' = [trigger EXCEPT !.port_open = TRUE]
    /\ UNCHANGED trigger_frame

\* close
TriggerClose ==
    /\ trigger' = [trigger EXCEPT !.port_open = FALSE]
    /\ UNCHANGED trigger_frame

\* delay setter
TriggerSetDelay(d) ==
    /\ IF ~TimerAlive(trigger.timer)
       THEN trigger' = [trigger EXCEPT !.delay = d, !.timer = "new"]
       ELSE UNCHANGED trigger
    /\ UNCHANGED trigger_frame

\* signal: refused while the off-timer is alive; otherwise write the value
\* (serial.Serial.write raises on a closed port) and start the off-timer
\* (Thread.start raises RuntimeError on a thread that was started before)
TriggerSignal(value) ==
    /\ trigger.accepted < MaxSignals
    /\ IF TimerAlive(trigger.timer)
       THEN trigger' = [trigger EXCEPT !.ret = Value(FALSE)]
       ELSE IF ~trigger.port_open
       THEN trigger' = [trigger EXCEPT !.ret = Raises("PortNotOpenError")]
       ELSE IF trigger.timer # "new"
       THEN trigger' = [trigger EXCEPT !.line = Some(value),
                                       !.ret = Raises("RuntimeError")]
       ELSE trigger' = [trigger EXCEPT !.line = Some(value),
                                       !.timer = "waiting",
                                       !.ret = Value(TRUE),
                                       !.accepted = @ + 1,
                                       !.reset_since = FALSE]
    /\ UNCHANGED trigger_frame

\* the delay has elapsed, _signal_off: self._set_data(0); an exception of
\* the write ends the timer thread
TimerFire ==
    /\ trigger.timer = "waiting"
    /\ IF trigger.port_open
       THEN trigger' = [trigger EXCEPT !.line = Some(0), !.timer = "firing",
                                       !.reset_since = TRUE]
       ELSE trigger' = [trigger EXCEPT !.timer = "dead"]
    /\ UNCHANGED trigger_frame

\* _signal_off: self._offtimer = threading.Timer(...)
TimerRenew ==
    /\ trigger.timer = "firing"
    /\ trigger' = [trigger EXCEPT !.timer = "new"]
    /\ UNCHANGED trigger_frame

TriggerNext ==
    \/ TriggerSetComPort
    \/ TriggerClose
    \/ \E d \in TriggerDelays : TriggerSetDelay(d)
    \/ \E value \in TriggerValues : TriggerSignal(value)
    \/ TimerFire
    \/ TimerRenew
TriggerSpec == TriggerInit /\ [][TriggerNext]_vars


\* =================================================== neurodecode StreamReceiver
\* src/neurodecode/stream_receiver/stream_receiver.py.  `receiver` holds the
\* attributes of the StreamReceiver (_stream_name: None or Some(set of
\* names); _connected; the keys of _streams and of _acquisition_threads;
\* _bufsize and _winsize), the outcome of its last call, and the LSL streams
\* that pylsl.resolve_streams() currently finds on the network.
LslStreams ==
    { [name |-> "a", type |-> "eeg", nominal_srate |-> 2],
      [name |-> "b", type |-> "markers", nominal_srate |-> 0],
      [name |-> "c", type |-> "audio", nominal_srate |-> 2] }
Networks == SUBSET LslStreams
NameArgs ==
    {None, Some({"a"}), Some({"b"}), Some({"c"}), Some({"a", "b"})}
Sizes == {0, 1, 2}
MaxCalls == 3

\* The part of connect() after the early return: the streams found within
\* the timeout are those of `network`.  A stream that passes the name filter
\* sets _connected, whether or not it is attached; the search loop ends as
\* soon as _connected is true, and returns False at the timeout otherwise.
ConnectSearch(r, network) ==
    LET accepted == {st \in network :
                        r.stream_name = None \/ st.name \in Get(r.stream_name)}
        attached == {st.name : st \in
                        {a \in accepted :
                            a.type = "eeg" \/ a.nominal_srate = 0}}
    IN  IF r.connected \/ accepted # {}
        THEN [r EXCEPT !.connected = TRUE, !.streams = attached,
                       !.threads = @ \cup attached, !.ret = Value(TRUE)]
        ELSE [r EXCEPT !.streams = {}, !.ret = Value(FALSE)]

\* connect(timeout, force)
ReceiverConnectResult(r, force, network) ==
    IF ~force /\ r.connected THEN [r EXCEPT !.ret = Value(TRUE)]
    ELSE ConnectSearch(r, network)

\* _check_bufsize: the size stored; sizes <= 0 raise ValueError
CheckBufsize(bufsize, winsize) == IF bufsize < winsize THEN winsize ELSE bufsize

\* The state after __init__, which ends with connect().
ReceiverInit ==
    /\ NoInstance
    /\ call = None
    /\ player = None
    /\ trigger = None
    /\ \E names \in NameArgs, network \in Networks, bufsize, winsize \in {1, 2} :
          receiver =
             [ReceiverConnectResult(
                 [stream_name |-> names, connected |-> FALSE, streams |-> {},
                  threads |-> {}, winsize |-> winsize,
                  bufsize |-> CheckBufsize(bufsize, winsize),
                  network |-> network, ret |-> None, n_calls |-> 0],
                 FALSE, network)
              EXCEPT !.ret = None]

receiver_frame == <<instance_vars, call, player, trigger>>

\* streams appear on and disappear from the network
NetworkChange(network) ==
    /\ network # receiver.network
    /\ receiver' = [receiver EXCEPT !.network = network]
    /\ UNCHANGED receiver_frame

Called(r) == [r EXCEPT !.n_calls = @ + 1]

ReceiverConnect(force) ==
    /\ receiver.n_calls < MaxCalls
    /\ receiver' = Called(ReceiverConnectResult(receiver, force, receiver.network))
    /\ UNCHANGED receiver_frame

\* disconnect(stream_name)
ReceiverDisconnect(names) ==
    /\ receiver.n_calls < MaxCalls
    /\ LET stream_name == IF names = None THEN receiver.streams ELSE Get(names)
           left == receiver.streams \ stream_name
       IN  receiver' = Called(
              [receiver EXCEPT
                 !.streams = left,
                 !.threads = @ \ (receiver.streams \cap stream_name),
                 !.connected = IF left = {} THEN FALSE ELSE @,
                 !.ret = Value(None)])
    /\ UNCHANGED receiver_frame

\* bufsize setter
ReceiverSetBufsize(bufsize) ==
    /\ receiver.n_calls < MaxCalls
    /\ IF bufsize <= 0
       THEN receiver' = Called([receiver EXCEPT !.ret = Raises("ValueError")])
       ELSE receiver' = Called(
              [ReceiverConnectResult(
                  [receiver EXCEPT
                     !.bufsize = CheckBufsize(bufsize, receiver.winsize)],
                  TRUE, receiver.network)
               EXCEPT !.ret = Value(None)])
    /\ UNCHANGED receiver_frame

\* winsize setter
ReceiverSetWinsize(winsize) ==
    /\ receiver.n_calls < MaxCalls
    /\ IF winsize <= 0
       THEN receiver' = Called([receiver EXCEPT !.ret = Raises("ValueError")])
       ELSE receiver' = Called(
              [ReceiverConnectResult(
                  [receiver EXCEPT
                     !.winsize = winsize,
                     !.bufsize = CheckBufsize(receiver.bufsize, winsize)],
                  TRUE, receiver.network)
               EXCEPT !.ret = Value(None)])
    /\ UNCHANGED receiver_frame

\* stream_name setter: reconnect with the new names and, when that leaves
\* the receiver not connected, with the old names
ReceiverSetStreamName(names) ==
    /\ receiver.n_calls < MaxCalls
    /\ LET first == ReceiverConnectResult(
                       [receiver EXCEPT !.stream_name = names],
                       TRUE, receiver.network)
           final == IF ~first.connected
                    THEN ReceiverConnectResult(
                            [first EXCEPT !.stream_name = receiver.stream_name],
                            TRUE, receiver.network)
                    ELSE first
       IN  receiver' = Called([final EXCEPT !.ret = Value(None)])
    /\ UNCHANGED receiver_frame

ReceiverNext ==
    \/ \E network \in Networks : NetworkChange(network)
    \/ \E force \in BOOLEAN : ReceiverConnect(force)
    \/ \E names \in NameArgs : ReceiverDisconnect(names)
    \/ \E bufsize \in Sizes : ReceiverSetBufsize(bufsize)
    \/ \E winsize \in Sizes : ReceiverSetWinsize(winsize)
    \/ \E names \in NameArgs : ReceiverSetStreamName(names)
ReceiverSpec == ReceiverInit /\ [][ReceiverNext]_vars


\* ------------------------------------------------------------------------
\* Properties
\* ------------------------------------------------------------------------
\* no worker is between np.roll and the overwrite of the tail
NoTornBuffer == \A i \in DOMAIN pools : pools[i].pc # "write"

\* an acquisition step finishes its insertion: a manual acquire() that
\* inserted, or the worker's last update after its insertion
InsertingStepEnds ==
    \/ AcquireManual /\ Len(inserted') > Len(inserted)
    \/ \E i \in PoolIds : WorkerUpdate(i)

\* the entries of the history written by the step from the unprimed to the
\* primed state, within one connection
NewlyInserted ==
    IF n_connects' = n_connects /\ Len(inserted') > Len(inserted)
    THEN {inserted'[k] : k \in (Len(inserted) + 1)..Len(inserted')}
    ELSE {}

\* C1: an onset whose epoch was inserted by one acquisition step of a
\* connection is never inserted again by a later step: the onsets inserted
\* during one connection are pairwise distinct.
C1_NoOnsetInsertedTwice ==
    \A i, j \in 1..Len(inserted) :
        i < j => inserted[i].ts # inserted[j].ts

\* C2: every get_data() call on a connected EpochsStream, whatever its picks,
\* leaves the n_new_epochs property reading 0.
C2_GetDataResetsCounter ==
    [][(connected /\ \E p \in PicksArgs : get_data(p))
          => n_new_epochs_property' = Value(0)]_vars

\* C3: when an acquisition step that inserted at least one epoch ends, the
\* watermark self._last_ts is the timestamp of the latest onset it extracted.
C3_WatermarkIsLatestOnset ==
    [][InsertingStepEnds
          => last_ts' = Some(inserted'[Len(inserted')].ts)]_vars

\* C4: within one connection the watermark never decreases, and no step
\* extracts an event whose timestamp is at or before the watermark, i.e. at
\* or before the timestamp of the latest onset extracted so far.
C4_WatermarkMonotone ==
    [][/\ (n_connects' = n_connects /\ last_ts # None)
            => (last_ts' = None \/ Get(last_ts') >= Get(last_ts))
       /\ \A e \in NewlyInserted :
            /\ last_ts # None => e.ts > Get(last_ts)
            /\ inserted # << >> => e.ts > inserted[Len(inserted)].ts]_vars


\* ceil((tmax - tmin) * sfreq), characterised without Ceil: the least n with
\* n >= (tmax - tmin) * sfreq
EpochSampleCount ==
    LET x == (cfg.tmax - cfg.tmin) * cfg.sfreq
    IN  CHOOSE n \in 0..x :
            n * cfg.time_den >= x /\ (n - 1) * cfg.time_den < x

\* a is a 3-dimensional array of shape (d1, d2, d3)
HasShape(a, d1, d2, d3) ==
    /\ Len(a) = d1
    /\ \A e \in 1..d1 :
          /\ Len(a[e]) = d2
          /\ \A c \in 1..d2 : Len(a[e][c]) = d3

\* C5: whenever get_data(picks) returns, whatever was collected so far, the
\* array has shape (bufsize, number of selected channels, epoch sample count).
C5_GetDataShape ==
    (last_call.op = "get_data" /\ last_call.raised = "")
        => HasShape(Get(last_call.ret), cfg.bufsize,
                    Len(PicksToIdx(last_call.arg)), EpochSampleCount)

\* a get_data() restricted to one channel returned after an epoch was inserted
C5_Witness ==
    /\ connected
    /\ last_call.op = "get_data" /\ last_call.raised = ""
    /\ last_call.arg = Some(<<0>>)
    /\ inserted # << >>

\* the buffer a FIFO of capacity n holds after the insertions of `log`: the
\* last min(T, n) epochs in the order of their insertion, after zero slots
FifoBuffer(log, n) ==
    LET T == Len(log)
        m == IF T < n THEN T ELSE n
    IN  [i \in 1..n |->
            IF i <= n - m
            THEN [j \in 1..EpochSampleCount |-> [p \in 1..2 |-> 0]]
            ELSE log[T - n + i].epoch]

\* C6: as long as the instance stays connected (every batch fitted into the
\* buffer) and no insertion is half done, the buffer holds the min(T, N) most
\* recently inserted epochs at its tail, in the order of their insertion,
\* preceded by zero-filled slots.
C6_BufferIsFifo ==
    (connected /\ NoTornBuffer)
        => Get(buffer) = FifoBuffer(inserted, cfg.bufsize)

\* four epochs were inserted into a buffer of three slots
C6_Witness ==
    /\ connected /\ NoTornBuffer
    /\ cfg.bufsize = 3
    /\ Len(inserted) = 4


\* C7: an acquisition step (manual, or the start of the worker's job) that
\* finds no new sample, or no event surviving the pruning, leaves buffer,
\* watermark and counter unchanged and the instance connected; the worker
\* goes on to resubmit the job.
C7_NoOpStep ==
    [][\A i \in PoolIds :
          (/\ connected
           /\ (n_new_samples = 0 \/ Len(StepEvents) = 0)
           /\ (AcquireManual \/ WorkerStart(i)))
          => /\ buffer' = buffer
             /\ last_ts' = last_ts
             /\ last' = last
             /\ n_new_epochs' = n_new_epochs
             /\ inserted' = inserted
             /\ connected'
             /\ WorkerStart(i) => pools'[i].pc = "submit"]_vars

\* a manual step found no surviving event after an earlier step had inserted
C7_Witness ==
    /\ connected
    /\ last_call.op = "acquire" /\ last_call.step = "no_events"
    /\ n_new_epochs > 0

\* C8: the epochs in the buffer are in the order of their onsets: an epoch at
\* a later position never has an earlier onset than one at an earlier
\* position (within the batch of one step and across steps).
C8_BufferInOnsetOrder ==
    (connected /\ NoTornBuffer)
        => LET T == Len(inserted)
               n == cfg.bufsize
               m == IF T < n THEN T ELSE n
           IN  \A a, b \in (n - m + 1)..n :
                  (/\ a < b
                   /\ Get(buffer)[a] = inserted[T - n + a].epoch
                   /\ Get(buffer)[b] = inserted[T - n + b].epoch)
                  => inserted[T - n + a].ts <= inserted[T - n + b].ts

\* C9: in every connected state an executor exists exactly when the delay
\* given to connect() is non-zero, and while connected with a zero delay no
\* pool has a job submitted or running.
C9_ExecutorIffAutomatic ==
    connected
        => /\ (executor # None) <=> (acquisition_delay # Some(0))
           /\ acquisition_delay = Some(0)
                => \A i \in DOMAIN pools : ~Running(i) /\ ~pools[i].pending

\* connected in manual mode after an automatic connection
C9_Witness ==
    /\ connected
    /\ acquisition_delay = Some(0)
    /\ pools # << >>

\* C10: acquire() called while connected with a non-zero delay raises
\* RuntimeError and runs no acquisition step: nothing but the call's outcome
\* changes.
C10_AcquireRefusedWhenAutomatic ==
    [][(connected /\ acquisition_delay # Some(0) /\ acquire)
          => /\ last_call' = Raised("acquire", None, "RuntimeError")
             /\ UNCHANGED <<n_new_samples, self_vars, last, new_new_epochs,
                            pools, inserted>>]_vars

\* acquire() was refused while new samples were waiting
C10_Witness ==
    /\ connected
    /\ executor # None
    /\ last_call.op = "acquire" /\ last_call.raised = "RuntimeError"
    /\ n_new_samples > 0

\* the variables of the instance, its executors and its registration
state_vars == <<n_new_samples, self_vars, pools, stream_epochs, inserted>>

\* C11: on a disconnected instance the properties n_new_epochs and info raise
\* the not-connected RuntimeError, and acquire() and get_data() raise it too
\* and leave the instance disconnected with its state unchanged.
C11_DisconnectedUseRaisesNotConnected ==
    [][disconnected
          => /\ n_new_epochs_property = Raises("RuntimeError")
             /\ info_property = Raises("RuntimeError")
             /\ (acquire \/ \E p \in PicksArgs : get_data(p))
                   => /\ last_call'.raised = "RuntimeError"
                      /\ disconnected'
                      /\ UNCHANGED state_vars]_vars

\* the pools whose worker is inside _acquire
RunningPools == {i \in DOMAIN pools : Running(i)}

\* C12: at most one acquisition step is executing at any time: no two workers
\* are inside _acquire together, and acquire() runs a step in the caller's
\* thread only while no worker is inside _acquire.
C12_AtMostOneStep ==
    [][/\ Cardinality(RunningPools) <= 1
       /\ (AcquireManual \/ AcquireRaced \/ AcquireManualRaced)
             => RunningPools = {}]_vars

\* C13: from the moment disconnect() has returned until the next API call, no
\* worker is inside an acquisition step and no submitted step is waiting to
\* start.
C13_NoStepAfterDisconnect ==
    (caller.pc = "ready" /\ last_call.op = "disconnect" /\ last_call.raised = "")
        => \A i \in DOMAIN pools : ~Running(i) /\ ~pools[i].pending

\* everything _reset_variables clears is cleared
Cleared ==
    /\ disconnected
    /\ executor = None
    /\ last_ts = None
    /\ n_new_epochs = 0

\* an acquisition step that failed ends: in the caller's thread, or in the
\* worker of pool i
ManualStepFails(strict) ==
    /\ AcquireManual \/ AcquireRaced \/ AcquireManualRaced
    /\ \E error \in {"ValueError", "AttributeError", "TypeError"} :
          last_call' = Failed(error, strict)

\* C14: with strict mode off, a step that failed raises nothing to the caller
\* of acquire(), and when the step ends (in the caller's thread or in a
\* worker) the instance is disconnected with buffer, info, picks, delay,
\* executor, watermark and counter cleared.
C14_FailureResetsQuietly ==
    [][/\ ManualStepFails(FALSE) => (last_call'.raised = "" /\ Cleared')
       /\ \A i \in PoolIds : WorkerResetEnd(i) => Cleared']_vars

\* C15: a step that failed inside acquire() raises to the caller exactly in
\* strict mode, and in both modes the instance is disconnected and cleared
\* when the step ends, in the caller's thread as in a worker.
C15_ReraisedIffStrict ==
    [][/\ \A strict \in StrictModes :
             ManualStepFails(strict)
                => /\ (last_call'.raised # "") <=> strict
                   /\ Cleared'
       /\ \A i \in PoolIds : WorkerResetEnd(i) => Cleared']_vars

\* C16: in every state the attributes _acquisition_delay, _buffer, _info and
\* _picks are all set or all unset, so that `connected` never fails its
\* sanity-check.
C16_AllOrNothing == ~connected_asserts

\* C17: whenever the instance is connected it is in the _epochs list of its
\* source stream.
C17_ConnectedIsRegistered == connected => stream_epochs

\* C18: from the moment disconnect() has returned until the next API call the
\* instance is disconnected, with buffer, info, picks, delay, executor and
\* watermark unset and the counter 0, and it is not in the _epochs list of
\* the source stream.
C18_DisconnectClears ==
    (caller.pc = "ready" /\ last_call.op = "disconnect" /\ last_call.raised = "")
        => Cleared /\ ~stream_epochs

\* disconnect() returned after epochs had been inserted by a worker
C18_Witness ==
    /\ caller.pc = "ready"
    /\ last_call.op = "disconnect" /\ last_call.raised = ""
    /\ inserted # << >>
    /\ pools # << >>

\* C19: connect() on a connected instance, with any delay, raises nothing and
\* changes neither the buffer, the counter, the watermark, the delay, the
\* executor nor any pool: no second worker is created.
C19_ConnectTwiceIsNoOp ==
    [][\A d \in Delays :
          (connected /\ Connect(d))
             => /\ last_call' = Returned("connect", Some(d), None)
                /\ connected'
                /\ UNCHANGED state_vars]_vars

\* connect() with another delay returned on an instance connected in
\* automatic mode that holds new epochs
C19_Witness ==
    /\ connected
    /\ last_call.op = "connect" /\ last_call.raised = ""
    /\ last_call.arg # acquisition_delay
    /\ executor # None
    /\ n_new_epochs > 0

\* C20: in automatic mode every acquisition step that completes without
\* failing (pc "submit": after an early return or after an insertion) leads
\* to its job being submitted again, and every submitted job leads to the next
\* step being started, unless disconnect() has shut the executor down.
C20_PollingContinues ==
    \A i \in PoolIds :
        /\ (i \in DOMAIN pools /\ pools[i].pc = "submit")
              ~> (i \in DOMAIN pools
                    /\ (pools[i].pending \/ pools[i].shutdown))
        /\ (i \in DOMAIN pools /\ pools[i].pending)
              ~> (i \in DOMAIN pools
                    /\ (Running(i) \/ pools[i].shutdown))

\* a worker has gone round the loop: it completed a step that inserted epochs
\* and then started the next step, which found no new sample
C20_Witness ==
    \E i \in DOMAIN pools :
        /\ pools[i].pc = "submit"
        /\ ~pools[i].shutdown
        /\ n_new_epochs > 0
        /\ n_new_samples = 0
        /\ Len(stims) = MaxSamples

\* the step function has been applied to the arguments in `call`
StepDone == call # None /\ call.fn = "step" /\ call.out # None
\* the positions k of the sequence evs whose element satisfies P
Positions(evs, P(_)) == {k \in 1..Len(evs) : P(evs[k])}
\* sub is evs restricted to the elements that satisfy P, in the same order
IsFilterOf(sub, evs, P(_)) ==
    /\ Len(sub) = Cardinality(Positions(evs, P))
    /\ \A j \in 1..Len(sub) : P(sub[j])
    /\ \A k \in Positions(evs, P) :
          sub[Cardinality({m \in Positions(evs, P) : m <= k})] = evs[k]

\* C21: with an event_id allow-list, the allow-list step keeps exactly the
\* detected onsets whose code is a configured one, in their order, and every
\* onset that survives the pruning has a configured code.
C21_AllowListKeepsConfiguredCodes ==
    StepDone
        => LET o == Get(call.out)
               Configured(e) == e.code \in call.event_id
           IN  /\ IsFilterOf(o.allowed, o.found, Configured)
               /\ \A k \in 1..Len(o.events) : Configured(o.events[k])

\* onsets with codes 1 and 2 were detected under the allow-list {2}, and only
\* the onsets with code 2 survived
C21_Witness ==
    /\ StepDone
    /\ call.event_id = {2}
    /\ \E k \in 1..Len(Get(call.out).found) : Get(call.out).found[k].code = 1
    /\ \E k \in 1..Len(Get(call.out).found) : Get(call.out).found[k].code = 2
    /\ Get(call.out).events # << >>
    /\ \A k \in 1..Len(Get(call.out).events) :
          Get(call.out).events[k].code = 2

\* ceil((tmax - tmin) * sfreq) of a call: the least n with
\* n >= (tmax - tmin) * sfreq
FnEpochSampleCount ==
    LET x == (call.times.tmax - call.times.tmin) * FnSfreq
    IN  CHOOSE n \in 0..x : n * FnTimeDen >= x /\ (n - 1) * FnTimeDen < x

\* C22: the fitting step keeps exactly the (re-anchored) onsets at an index i
\* with i + epoch sample count <= number of available samples.
C22_FitsIffInsideData ==
    StepDone
        => LET o == Get(call.out)
               Fits(e) == e.idx + FnEpochSampleCount <= FnLen
           IN  IsFilterOf(o.fitting, o.anchored, Fits)

\* onsets of an event stream were re-anchored; one of them fits and one of
\* them ends exactly one sample too late
C22_Witness ==
    /\ StepDone
    /\ call.source = "regular"
    /\ Get(call.out).fitting # << >>
    /\ \E k \in 1..Len(Get(call.out).anchored) :
          Get(call.out).anchored[k].idx + FnEpochSampleCount = FnLen + 1
    /\ \E k \in 1..Len(Get(call.out).fitting) :
          Get(call.out).fitting[k].idx + FnEpochSampleCount = FnLen

\* round(tmin * sfreq) of a call: the integer nearest to it, the even one of
\* the two when it lies half-way
FnOnsetShift ==
    LET x == call.times.tmin * FnSfreq
    IN  CHOOSE q \in -FnLen..FnLen :
            /\ 2 * (q * FnTimeDen - x) <= FnTimeDen
            /\ 2 * (x - q * FnTimeDen) <= FnTimeDen
            /\ (2 * (q * FnTimeDen - x) = FnTimeDen
                  \/ 2 * (x - q * FnTimeDen) = FnTimeDen) => q % 2 = 0

\* C23: for negative, zero and positive tmin, the window of every onset output
\* by the pruner lies inside the available data, and the extraction succeeds.
C23_PrunedOnsetsAreExtractable ==
    StepDone
        => LET o == Get(call.out)
           IN  /\ o.ok
               /\ \A k \in 1..Len(o.events) :
                     /\ o.events[k].idx + FnOnsetShift >= 0
                     /\ o.events[k].idx + FnOnsetShift + FnEpochSampleCount
                           <= FnLen

\* C24: the onsets that reach the extraction are in non-decreasing order of
\* sample index and no two of them have the same sample index.
C24_OnsetsSortedAndUnique ==
    StepDone
        => LET ev == Get(call.out).events
           IN  \A k, j \in 1..Len(ev) : k < j => ev[k].idx < ev[j].idx

\* C25: with an event stream, the re-anchoring step replaces the index k of
\* every event by the smallest index i with ts[i] >= ts_events[k], or by
\* ts.size when there is none, and changes nothing else.
C25_ReanchoredBySearchSortedLeft ==
    (StepDone /\ call.source = "regular")
        => LET o == Get(call.out)
               ts_events == Get(call.ts_events)
               Position(v) ==
                   CHOOSE i \in 0..FnLen :
                       /\ i < FnLen => FnTs[i + 1] >= v
                       /\ \A m \in 0..(i - 1) : FnTs[m + 1] < v
           IN  /\ Len(o.anchored) = Len(o.allowed)
               /\ \A k \in 1..Len(o.allowed) :
                     o.anchored[k] =
                        [o.allowed[k] EXCEPT
                            !.idx = Position(ts_events[o.allowed[k].idx + 1])]

\* an event stamped after the last data sample was anchored at ts.size, and
\* an event stamped between two data samples at the later of the two
C25_Witness ==
    /\ StepDone
    /\ call.source = "regular"
    /\ call.ts_events = Some(<<12, 14, 26, 45>>)
    /\ \E k \in 1..Len(Get(call.out).anchored) :
          Get(call.out).anchored[k].idx = FnLen
    /\ \E k \in 1..Len(Get(call.out).anchored) :
          /\ Get(call.out).allowed[k].idx = 2
          /\ Get(call.out).anchored[k].idx = 2

\* C26: the epoch of every pruned onset at sample index s is the epoch sample
\* count contiguous samples of the selected channel that start at
\* s + round(tmin * sfreq).
C26_EpochIsContiguousWindow ==
    (StepDone /\ Get(call.out).ok)
        => LET o == Get(call.out)
           IN  /\ Len(o.selection) = Len(o.events)
               /\ \A k \in 1..Len(o.events) :
                     LET start == o.events[k].idx + FnOnsetShift
                     IN  /\ Len(o.selection[k]) = FnEpochSampleCount
                         /\ \A j \in 1..FnEpochSampleCount :
                               /\ start + j \in 1..FnLen
                               /\ o.selection[k][j] = <<FnEeg[start + j]>>

\* C27: with an irregular event stream the step produces, without failing,
\* one event per sample received from the event stream: row k is (k, 0, the
\* event channel that carries the maximum of sample k).
C27_OneEventPerIrregularSample ==
    (call # None /\ call.fn = "irregular" /\ call.out # None)
        => LET o == Get(call.out)
               data_events == DataEvents(call.hot)
               Channel(k) == ArgMax([c \in 1..2 |-> data_events[c][k]])
           IN  /\ o.raised = ""
               /\ o.events =
                     [k \in 1..Len(call.hot) |-> <<k - 1, 0, Channel(k)>>]

\* C28: get_data() changes neither the buffer nor the watermark nor the
\* connection state, and touches no executor: it only reads.
C28_GetDataOnlyReads ==
    [][\A p \in PicksArgs :
          get_data(p)
             => /\ buffer' = buffer
                /\ last_ts' = last_ts
                /\ last' = last
                /\ connected' = connected
                /\ disconnected' = disconnected
                /\ UNCHANGED <<acquisition_delay, executor, info, picks,
                               pools, stream_epochs, inserted>>]_vars

\* get_data() returned the epochs that a background worker had inserted
C28_Witness ==
    /\ connected
    /\ executor # None
    /\ last_call.op = "get_data" /\ last_call.raised = ""
    /\ last_call.ret # None
    /\ inserted # << >>
    /\ n_new_epochs > 0

\* the buffer as it was before np.roll(buffer, -k)
UnRoll(a, k) ==
    LET n == Len(a)
    IN  [i \in 1..n |-> a[((i - 1 - k) % n) + 1]]

\* C29: get_data() called while a worker is between np.roll and the
\* overwrite of the tail returns the buffer as it was before the insertion or
\* as it is after the insertion, never the shifted buffer whose tail is not
\* overwritten yet.
C29_GetDataNeverTorn ==
    [][\A p \in PicksArgs : \A i \in PoolIds :
          (/\ i \in DOMAIN pools
           /\ pools[i].pc = "write"
           /\ connected
           /\ WriteOk(Get(buffer), Get(pools[i].loc).sel)
           /\ get_data(p))
             => LET sel  == Get(pools[i].loc).sel
                    pre  == UnRoll(Get(buffer), Len(sel))
                    post == WriteTail(Get(buffer), sel)
                IN  \/ last_call'.ret = Some(GetDataArray(pre, PicksToIdx(p)))
                    \/ last_call'.ret = Some(GetDataArray(post, PicksToIdx(p)))]_vars

\* the constructor has been applied to the arguments in `call`
Constructed == call # None /\ call.fn = "construct" /\ call.out # None
\* an event_id that is a positive integer or maps non-empty names to positive
\* integers
WellFormedEventId(event_id) ==
    /\ event_id.kind = "int" => event_id.value >= 1
    /\ event_id.kind = "dict"
          => \A item \in event_id.items : item[1] # "" /\ item[2] >= 1

WindowsChecked == call # None /\ call.fn = "windows" /\ call.out # None
\* a bound that is given lies in [tmin, tmax]
BoundInside(bound, tmin, tmax) ==
    bound # None => tmin <= Get(bound) /\ Get(bound) <= tmax

\* C31: an instance is constructed only if every given bound of the baseline
\* and of the rejection time window lies in [tmin, tmax]; a window with a
\* bound outside [tmin, tmax] is rejected.
C31_WindowsInsideEpoch ==
    WindowsChecked /\ Get(call.out).raised = ""
        => LET a == Get(Get(call.out).value)
           IN  /\ a.baseline # None
                     => /\ BoundInside(a.baseline[1], call.tmin, call.tmax)
                        /\ BoundInside(a.baseline[2], call.tmin, call.tmax)
               /\ BoundInside(a.reject_tmin, call.tmin, call.tmax)
               /\ BoundInside(a.reject_tmax, call.tmin, call.tmax)

\* the number of epochs of the batch whose insertion ends with this step
BatchInserted ==
    IF AcquireManual /\ Len(inserted') > Len(inserted)
    THEN Len(inserted') - Len(inserted)
    ELSE IF \E i \in PoolIds : WorkerUpdate(i)
    THEN Len(Get(pools[CHOOSE i \in PoolIds : WorkerUpdate(i)].loc).sel)
    ELSE 0

\* C32: a step that inserts a batch of k epochs adds exactly k to the
\* new-epoch counter; a read sets the counter to 0 and nothing else changes it
\* except by setting it to 0, so that between reads the counter is the number
\* of epochs inserted since the last get_data() or connect().
C32_CounterCountsInsertionsSinceRead ==
    [][IF InsertingStepEnds
       THEN n_new_epochs' = n_new_epochs + BatchInserted
       ELSE IF connected /\ \E p \in PicksArgs : get_data(p)
       THEN n_new_epochs' = 0
       ELSE n_new_epochs' = n_new_epochs \/ n_new_epochs' = 0]_vars

\* a child process is inside the streaming loop
Streaming(ch) == ch.pc \in {"test", "push"}
\* every child process launched has ended, and no start() or stop() is running
StreamingEnded ==
    /\ player # None
    /\ player.pc = "ready"
    /\ player.children # << >>
    /\ \A i \in DOMAIN player.children :
          player.children[i].pc \in {"done", "killed"}

\* C33: the state flag of the StreamPlayer is 0 before start(), it is 1 while
\* a child process streams (and stop() has not been called since the child
\* started), and it is 0 again once streaming has ended, by stop() or by the
\* child exhausting its repeat count.
C33_StateFlagFollowsStreaming ==
    player # None
        => /\ player.children = << >> => player.state = 0
           /\ \A i \in DOMAIN player.children :
                 Streaming(player.children[i])
                 /\ player.children[i].born = player.n_stops
                     => player.state = 1
           /\ StreamingEnded => player.state = 0

\* a signal() call is made
SignalCalled == \E value \in TriggerValues : TriggerSignal(value)
\* the signal() call of this step is accepted: it returns True
SignalAccepted == SignalCalled /\ trigger'.ret = Value(TRUE)

\* C34: a signal() call made while the off-timer is alive returns False and
\* writes nothing; an accepted signal() call is the first one or follows a
\* reset of the trigger line to 0 by the off-timer since the previous
\* accepted call; and a signal() call made once the off-timer has fired and
\* has been renewed is accepted (written to the line, off-timer started).
C34_DelayIsEnforced ==
    [][SignalCalled
         => /\ TimerAlive(trigger.timer)
                  => /\ trigger'.ret = Value(FALSE)
                     /\ trigger'.line = trigger.line
                     /\ trigger'.timer = trigger.timer
            /\ SignalAccepted
                  => /\ trigger.accepted > 0 => trigger.reset_since
                     /\ trigger.accepted > 0 => trigger.line = Some(0)
                     /\ trigger'.line # Some(0)
                     /\ TimerAlive(trigger'.timer)
            /\ trigger.port_open /\ trigger.timer = "new"
                  => SignalAccepted]_vars

\* C35: a connect() call on a disconnected instance that raises leaves the
\* instance as it was: disconnected, with poll interval, buffer, info, picks
\* and executor unset.
C35_FailedConnectChangesNothing ==
    [][(disconnected /\ (\E d \in Delays : Connect(d)) /\ last_call'.raised # "")
          => /\ disconnected'
             /\ executor' = None
             /\ UNCHANGED self_vars]_vars

\* C36: after a construction that failed with a configuration error the
\* failed instance is not in the consumer list of the source stream.
C36_FailedConstructionNotRegistered ==
    Constructed /\ Get(call.out).raised # "" => ~stream_epochs

\* the last n entries of a batch, in order
LastOf(sel, n) == [i \in 1..n |-> sel[Len(sel) - n + i]]

\* the insertion has been applied to the buffer and batch in `call`
Inserted == call # None /\ call.fn = "insert" /\ call.out # None

\* C37: the insertion of a batch larger than the capacity of the buffer
\* succeeds, and the buffer then holds the most recent epochs of the batch,
\* as many as its capacity and in chronological order.
C37_OversizedBatchKeepsLatest ==
    Inserted /\ Len(call.batch) > Len(call.buffer)
        => /\ Get(call.out).raised = ""
           /\ Get(call.out).value = Some(LastOf(call.batch, Len(call.buffer)))

\* every value of the buffer is 0
AllZero(buf) ==
    \A e \in DOMAIN buf : \A j \in DOMAIN buf[e] : \A p \in DOMAIN buf[e][j] :
        buf[e][j][p] = 0

\* C38: a connect() that succeeds on a disconnected instance, whatever was
\* acquired before, starts with an all-zero buffer, a new-epoch counter of 0
\* and no watermark.
C38_ConnectStartsFresh ==
    [][(disconnected /\ (\E d \in Delays : Connect(d)) /\ connected')
          => /\ AllZero(Get(buffer'))
             /\ n_new_epochs' = 0
             /\ last_ts' = None]_vars

\* the second connection has just been made, after a first connection during
\* which an epoch was inserted
C38_Witness ==
    /\ n_connects = 2
    /\ connected
    /\ last_call.op = "connect"
    /\ last_call.raised = ""
    /\ last # None

\* the worker of pool i is in the except clause of a failed step
Failing(pls, i) == \E k \in 1..7 : pls[i].pc = ResetPcs[k]

\* C39: when a failed step of a worker ends, its job is not submitted again
\* and, unless connect() has created a new executor meanwhile, no job is
\* waiting and no step is running; a job is submitted only by connect(),
\* with a new executor, or by a step that ended without failing.  Hence no
\* step runs after a failed one until connect() is called again.
C39_FailedStepStopsPolling ==
    [][\A i \in PoolIds :
         /\ WorkerResetEnd(i)
               => /\ ~pools'[i].pending
                  /\ pools'[i].pc = "idle"
                  /\ executor' = None
                        => \A j \in DOMAIN pools' :
                              /\ ~pools'[j].pending
                              /\ pools'[j].pc = "idle" \/ Failing(pools', j)
         /\ (i \in DOMAIN pools /\ ~pools[i].pending /\ pools'[i].pending)
               => \E j \in PoolIds : WorkerSubmit(j) /\ ~Failing(pools, j)
         /\ (i \notin DOMAIN pools /\ i \in DOMAIN pools')
               => \E d \in Delays : Connect(d)]_vars

\* the only connection was automatic and a failed step has ended it: the
\* last API call is the connect() that succeeded, the instance is
\* disconnected and its executor is idle with no job waiting
C39_Witness ==
    /\ Len(pools) = 1
    /\ pools[1].pc = "idle"
    /\ ~pools[1].pending
    /\ disconnected
    /\ executor = None
    /\ n_connects = 1
    /\ last_call.op = "connect"
    /\ last_call.raised = ""

\* C40: the connected flag of the StreamReceiver is true if and only if at
\* least one stream is attached, after any sequence of connect(),
\* connect(force=True), disconnect() and setter calls.
C40_ConnectedIffStreamAttached ==
    receiver # None => (receiver.connected <=> receiver.streams # {})

=============================================================================
